---- MODULE Spec2Model ----
\* Investigation engine of ai-agent-observability: the orchestrator's workflow
\* graph (agents/orchestrator.py) executed in supersteps, the two gathering
\* sub-loops (agents/metrics_agent.py, agents/logs_agent.py), the shared state
\* with its reducers (core/state.py), and the pre-run health refresh of the
\* front door (api/routes.py, tools/registry.py).
EXTENDS Integers, Sequences, FiniteSets, TLC

\* ---------------------------------------------------------------- bounds
\* largest max_iterations an initial state carries
MaxIterBound == 2
\* largest number of remote operations the completion service requests in one run
MaxToolCalls == 1
\* number of concurrent investigations in the refresh specification
NumInv == 2
\* largest number of content parts in a response envelope
MaxParts == 2
\* longest query, in words
MaxQueryLen == 3
\* longest output of the completion service, in words
MaxContentLen == 4
\* longest batch of queries validated together
MaxBatch == 3
\* largest max_attempts a retry wrapper is built with
MaxAttemptsBound == 3
\* latest timestamp of a trigger, a plan or a reply, in half hours
MaxTime == 3
\* most completion service calls of one background run
MaxCalls == 2

\* ---------------------------------------------------------------- constants
\* state.get("max_iterations", 3) in _should_continue
DefaultMaxIterations == 3
\* OrchestratorAgent._MAX_VALIDATION_RETRIES
_MAX_VALIDATION_RETRIES == 3
Backends == {"prometheus", "loki", "grafana"}
\* ToolRegistry._all_connections, in probe order
AllConnections == <<"prometheus", "loki", "grafana">>

Branches == {"investigate_metrics", "investigate_logs"}
BaseNodes == {"discover_environment", "analyze_input", "plan_investigation",
              "validate_queries", "resolve_time_range", "evaluate_results"}
AllNodes == BaseNodes \cup Branches \cup {"generate_rca"}
END == "__end__"

\* keys of AgentState
StateKeys == {"messages", "plan", "environment", "metrics_results", "logs_results",
              "rca_report", "investigation_complete", "iteration_count",
              "evaluation_feedback"}
\* keys declared with a reducer (Annotated[..., _merge_list], MessagesState.messages)
ReducerKeys == {"messages", "metrics_results", "logs_results"}

VARIABLES
  registry,   \* ToolRegistry: healthy flag of each MCPConnection
  orch,       \* OrchestratorAgent: grafana_tool, metrics_agent, logs_agent, graph
  trigger,    \* the run's input: trigger_type, pre-parsed start, max_iterations (if any)
  st,         \* AgentState of the running investigation
  active,     \* nodes of the current superstep
  pending,    \* updates returned by the nodes that finished in this superstep
  sub,        \* state of each gathering sub-loop (its own AgentState copy)
  status,     \* "running" | "done" | "interrupted" | "error"
  runs,       \* number of completed executions of each node
  lock,       \* holder of _health_refresh_lock (0 = free)
  task,       \* each investigation's background task: its position, the branch
              \* sets of the flags its own refresh and every later refresh produced
              \* (from compile on, only the compiled one among them is kept),
              \* the grafana_tool of the orchestrator when it compiled, and the
              \* environment its discover_environment returned
  pass,       \* position of each health_check pass in its loop over connections
  compiled,   \* branch set of the workflow each investigation compiled
  check_results, \* each health_check pass: the results it stored, whether it raised, and
              \* whether it is closing the client of an answered probe
  call,       \* one invocation of a remote operation through the tool client
  vq,         \* one execution of _validate_queries: its position, the loop's
              \* locals and the plan it returns
  stage       \* one execution of one node function on one input: the node, its
              \* position, the input and what it returned

engineVars == <<trigger, st, active, pending, sub, status, runs>>
refreshVars == <<lock, task, pass, compiled, check_results>>
serviceVars == <<call, vq, stage>>
vars == <<registry, orch, trigger, st, active, pending, sub, status, runs,
          lock, task, pass, compiled, check_results, call, vq, stage>>

Max(a, b) == IF a >= b THEN a ELSE b

\* ---------------------------------------------------------------- workflow construction

\* OrchestratorAgent._rebuild_agents_and_graph: which sub-agents exist
grafana_mcp(reg) == reg["grafana"]
prometheus_mcp(reg) == reg["prometheus"]
loki_mcp(reg) == reg["loki"]

metrics_agent(reg) == prometheus_mcp(reg) \/ grafana_mcp(reg)

\* variant: the logs agent is built for a healthy logs backend only
logs_agent_LokiOnly(reg) == loki_mcp(reg)

logs_agent(reg) == loki_mcp(reg) \/ grafana_mcp(reg)

\* OrchestratorAgent._build_graph: nodes and static edges for the given sub-agents
\* variants: the direct edge is always added / never added
DirectEdge_Always(cm, cl) == TRUE

DirectEdge_Never(cm, cl) == FALSE

DirectEdge(cm, cl) == (~cm) /\ (~cl)

_build_graph(cm, cl) ==
  [nodes |-> BaseNodes \cup {"generate_rca"}
             \cup (IF cm THEN {"investigate_metrics"} ELSE {})
             \cup (IF cl THEN {"investigate_logs"} ELSE {}),
   edges |-> {<<"discover_environment", "analyze_input">>,
              <<"analyze_input", "plan_investigation">>,
              <<"plan_investigation", "validate_queries">>,
              <<"validate_queries", "resolve_time_range">>,
              <<"generate_rca", END>>}
             \cup (IF cm THEN {<<"resolve_time_range", "investigate_metrics">>,
                               <<"investigate_metrics", "evaluate_results">>} ELSE {})
             \cup (IF cl THEN {<<"resolve_time_range", "investigate_logs">>,
                               <<"investigate_logs", "evaluate_results">>} ELSE {})
             \cup (IF DirectEdge(cm, cl)
                   THEN {<<"resolve_time_range", "evaluate_results">>} ELSE {})]

_rebuild_agents_and_graph(reg) ==
  [grafana_tool  |-> grafana_mcp(reg),
   metrics_agent |-> metrics_agent(reg),
   logs_agent    |-> logs_agent(reg),
   graph         |-> _build_graph(metrics_agent(reg), logs_agent(reg))]

\* branch set of a built workflow
BranchSet(g) == g.nodes \cap Branches

\* the branch set that corresponds to health flags reg
BranchesOf(reg) ==
  (IF reg["prometheus"] \/ reg["grafana"] THEN {"investigate_metrics"} ELSE {})
  \cup (IF reg["loki"] \/ reg["grafana"] THEN {"investigate_logs"} ELSE {})

\* ---------------------------------------------------------------- shared state and reducers

\* core/state.py _merge_list: the reducer of metrics_results and logs_results
\* variant: the channel keeps the last write instead of merging
_merge_list_Replace(left, right) == right

_merge_list(left, right) == left \o right

InSeq(x, s) == \E i \in DOMAIN s : s[i] = x

\* MessagesState's reducer: a message whose id is already in the history replaces
\* that entry in place, any other message is appended (a message is its id here)
add_messages(left, right) ==
  left \o SelectSeq(right, LAMBDA m : ~InSeq(m, left))

\* the reducer a channel applies to a write of key k
Reduce(k, old, new) ==
  IF k = "messages" THEN add_messages(old, new)
  ELSE IF k \in {"metrics_results", "logs_results"} THEN _merge_list(old, new)
  ELSE new

\* the state after one node's update (a function from some keys to values)
ApplyUpdate(s, upd) ==
  [k \in StateKeys |-> IF k \in DOMAIN upd THEN Reduce(k, s[k], upd[k]) ELSE s[k]]

RECURSIVE ApplyWrites(_, _)
\* the state after the updates of a superstep, applied in the order given
ApplyWrites(s, pend) ==
  IF pend = <<>> THEN s
  ELSE ApplyWrites(ApplyUpdate(s, Head(pend).upd), Tail(pend))

\* two nodes of one superstep wrote a key that has no reducer (InvalidUpdateError)
InvalidUpdate(pend) ==
  \E i, j \in DOMAIN pend :
    /\ i < j
    /\ (DOMAIN pend[i].upd) \cap (DOMAIN pend[j].upd) \cap (StateKeys \ ReducerKeys) # {}

\* AgentState as routes.py passes it to ainvoke: every other key at its default
NoPlan == [ver |-> 0, queries |-> "none", time_range |-> "none"]

InitialState ==
  [messages |-> <<>>, plan |-> NoPlan, environment |-> "none",
   metrics_results |-> <<>>, logs_results |-> <<>>, rca_report |-> FALSE,
   investigation_complete |-> FALSE, iteration_count |-> 0,
   evaluation_feedback |-> 0]

Msg(by, it, k, tc) == [by |-> by, it |-> it, k |-> k, tool_calls |-> tc]

\* state.get("max_iterations", 3)
max_iterations(tr) ==
  IF tr.has_max THEN tr.max_iterations ELSE DefaultMaxIterations

\* OrchestratorAgent._should_continue
\* variant: the ceiling is noticed one iteration late
IterationCeiling_Late(count, max) == count > max

IterationCeiling(count, max) == count >= max

\* variant: the verdict is ignored, only the ceiling ends the loop
_should_continue_IgnoresVerdict(s, tr) ==
  IF IterationCeiling(s.iteration_count, max_iterations(tr)) THEN "finish" ELSE "continue"

_should_continue(s, tr) ==
  IF s.investigation_complete THEN "finish"
  ELSE IF IterationCeiling(s.iteration_count, max_iterations(tr)) THEN "finish"
  ELSE "continue"

\* add_conditional_edges("evaluate_results", _should_continue, {...})
\* variant: the loop re-enters at analyze_input
ConditionalTarget_Reanalyze(route) ==
  IF route = "continue" THEN "analyze_input" ELSE "generate_rca"

ConditionalTarget(route) ==
  IF route = "continue" THEN "plan_investigation" ELSE "generate_rca"

\* the nodes a finished node triggers for the next superstep
Successors(g, n, s, tr) ==
  {e[2] : e \in {d \in g.edges : d[1] = n}}
  \cup (IF n = "evaluate_results" THEN {ConditionalTarget(_should_continue(s, tr))} ELSE {})

\* _wrap_with_stage.wrapped: the keys of the sub-graph's result handed to the parent
\* variant: output_keys = None for every wrapped sub-graph
output_keys_None(b) == StateKeys

output_keys(b) ==
  IF b = "investigate_metrics" THEN {"messages", "metrics_results"}
  ELSE IF b = "investigate_logs" THEN {"messages", "logs_results"}
  ELSE StateKeys

ResultKey(b) == IF b = "investigate_metrics" THEN "metrics_results" ELSE "logs_results"

\* a sub-loop that is not running
IdleSub == [pc |-> "idle", messages |-> <<>>, results |-> <<>>, rounds |-> 0]

\* wrapped(): subgraph.ainvoke(state) starts the sub-graph on a copy of the state
StartSub(b, s) ==
  [pc |-> "reason", messages |-> s.messages, results |-> s[ResultKey(b)], rounds |-> 0]

\* A node returns update upd. When it is the last node of the superstep, the
\* updates are applied through the reducers and the next superstep is scheduled.
Commit(n, upd) ==
  LET pend == Append(pending, [node |-> n, upd |-> upd])
      finished == {pend[i].node : i \in DOMAIN pend}
  IN /\ runs' = [runs EXCEPT ![n] = @ + 1]
     /\ IF finished # active
        THEN /\ pending' = pend
             /\ sub' = [b \in Branches |-> IF b = n THEN IdleSub ELSE sub[b]]
             /\ UNCHANGED <<st, active, status>>
        ELSE IF InvalidUpdate(pend)
        THEN /\ status' = "error"
             /\ active' = {}
             /\ pending' = <<>>
             /\ sub' = [b \in Branches |-> IdleSub]
             /\ UNCHANGED st
        ELSE LET news == ApplyWrites(st, pend)
                 next == (UNION {Successors(orch.graph, m, news, trigger) : m \in finished})
                         \ {END}
             IN /\ st' = news
                /\ active' = next
                /\ pending' = <<>>
                /\ sub' = [b \in Branches |->
                             IF b \in next THEN StartSub(b, news) ELSE IdleSub]
                /\ status' = IF next = {} THEN "done" ELSE status

\* ---------------------------------------------------------------- the workflow's stages

\* node n is scheduled in the current superstep and has not returned yet
Running(n) ==
  /\ status = "running"
  /\ n \in active
  /\ n \notin {pending[i].node : i \in DOMAIN pending}

\* the inputs of a run: alert or free-text trigger, and the max_iterations the
\* caller put into the initial state (routes.py puts none)
Triggers ==
  {x \in [trigger_type : {"alert", "user_query"}, preparsed : BOOLEAN,
           has_max : BOOLEAN, max_iterations : 0..MaxIterBound] :
     /\ (x.trigger_type = "alert" => ~x.preparsed)
     /\ (~x.has_max => x.max_iterations = 0)}

\* _discover_environment
DiscoverEnvironment ==
  /\ Running("discover_environment")
  /\ \E env \in (IF orch.grafana_tool THEN {"discovered", "degraded"} ELSE {"empty"}) :
       Commit("discover_environment", [k \in {"environment"} |-> env])
  /\ UNCHANGED <<registry, orch, trigger, refreshVars, serviceVars>>

\* _analyze_input
AnalyzeInput ==
  /\ Running("analyze_input")
  /\ Commit("analyze_input",
            [k \in {"messages"} |-> <<Msg("analyze_input", st.iteration_count, 0, FALSE)>>])
  /\ UNCHANGED <<registry, orch, trigger, refreshVars, serviceVars>>

\* "iteration_count": state.get("iteration_count", 0) + 1
NextIteration(count) == count + 1

\* _plan_investigation, _parse_plan succeeding: the plan of the completion service
PlanInvestigation ==
  /\ Running("plan_investigation")
  /\ NextIteration(st.iteration_count) <= DefaultMaxIterations + MaxIterBound
  /\ \E tr \in {"none", "llm"} :
       Commit("plan_investigation",
              [k \in {"messages", "plan", "iteration_count"} |->
                 IF k = "messages"
                 THEN <<Msg("plan_investigation", st.iteration_count, 0, FALSE)>>
                 ELSE IF k = "plan"
                 THEN [ver |-> NextIteration(st.iteration_count), queries |-> "raw",
                       time_range |-> tr]
                 ELSE NextIteration(st.iteration_count)])
  /\ UNCHANGED <<registry, orch, trigger, refreshVars, serviceVars>>

\* _plan_investigation, _parse_plan raising ValueError: the run fails
\* variant: a default plan is substituted and the run goes on
PlanInvestigationFails_DefaultPlan ==
  /\ Running("plan_investigation")
  /\ Commit("plan_investigation",
            [k \in {"plan"} |-> [ver |-> 0, queries |-> "raw", time_range |-> "none"]])
  /\ UNCHANGED <<registry, orch, trigger, refreshVars, serviceVars>>

PlanInvestigationFails ==
  /\ Running("plan_investigation")
  /\ status' = "error"
  /\ active' = {}
  /\ pending' = <<>>
  /\ UNCHANGED <<registry, orch, trigger, st, sub, runs, refreshVars, serviceVars>>

\* _validate_queries: the first pass has a valid query, or a pass after a
\* regeneration request has one, or the retry ceiling is reached with none
ValidateQueries ==
  /\ Running("validate_queries")
  /\ \E outcome \in {"valid", "valid_after_retry", "exhausted"} :
       LET plan == [st.plan EXCEPT
                      !.queries = IF outcome = "exhausted" THEN "empty" ELSE "valid"]
       IN Commit("validate_queries",
                 [x \in (IF outcome = "valid" THEN {"plan"} ELSE {"messages", "plan"}) |->
                    IF x = "messages"
                    THEN <<Msg("validate_queries", st.iteration_count, 0, FALSE)>>
                    ELSE plan])
  /\ UNCHANGED <<registry, orch, trigger, refreshVars, serviceVars>>

\* _validate_queries, _request_query_regeneration raising the ValueError of
\* _parse_plan: the run fails
ValidateQueriesFails ==
  /\ Running("validate_queries")
  /\ status' = "error"
  /\ active' = {}
  /\ pending' = <<>>
  /\ UNCHANGED <<registry, orch, trigger, st, sub, runs, refreshVars, serviceVars>>

\* _resolve_time_range_node without the clarification request
ResolveTimeRange ==
  /\ Running("resolve_time_range")
  /\ IF st.plan.time_range # "none"
     THEN Commit("resolve_time_range", <<>>)
     ELSE IF trigger.trigger_type = "alert"
     THEN Commit("resolve_time_range",
                 [k \in {"plan"} |-> [st.plan EXCEPT !.time_range = "alert"]])
     ELSE /\ trigger.preparsed
          /\ Commit("resolve_time_range",
                    [k \in {"plan"} |-> [st.plan EXCEPT !.time_range = "preparsed"]])
  /\ UNCHANGED <<registry, orch, trigger, refreshVars, serviceVars>>

\* _resolve_time_range_node reaching interrupt(): the run stops to wait for the reply
\* variant: every plan without a time range asks, whatever the trigger
ResolveTimeRangeInterrupt_AnyTrigger ==
  /\ Running("resolve_time_range")
  /\ st.plan.time_range = "none"
  /\ status' = "interrupted"
  /\ active' = {}
  /\ pending' = <<>>
  /\ UNCHANGED <<registry, orch, trigger, st, sub, runs, refreshVars, serviceVars>>

ResolveTimeRangeInterrupt ==
  /\ Running("resolve_time_range")
  /\ st.plan.time_range = "none"
  /\ trigger.trigger_type = "user_query"
  /\ ~trigger.preparsed
  /\ status' = "interrupted"
  /\ active' = {}
  /\ pending' = <<>>
  /\ UNCHANGED <<registry, orch, trigger, st, sub, runs, refreshVars, serviceVars>>

\* ---------------------------------------------------------------- the gathering sub-loops

InSub(b, pc) == status = "running" /\ b \in active /\ sub[b].pc = pc

Range(f) == {f[i] : i \in DOMAIN f}

\* the remote operations requested so far in this run
ToolCalls ==
  Cardinality({m \in Range(st.messages) \cup UNION {Range(sub[b].messages) : b \in Branches} :
                 m.tool_calls})

\* MetricsAgent._should_use_tool / LogsAgent._should_use_tool
_should_use_tool(messages) ==
  IF messages[Len(messages)].tool_calls THEN "tool_call" ELSE "done"

\* MetricsAgent._reason / LogsAgent._reason and the conditional edge after it
Reason(b) ==
  /\ InSub(b, "reason")
  /\ \E tc \in BOOLEAN :
       /\ tc => ToolCalls < MaxToolCalls
       /\ LET msgs == add_messages(sub[b].messages,
                                   <<Msg(b, st.iteration_count, 2 * sub[b].rounds, tc)>>)
          IN sub' = [sub EXCEPT ![b].messages = msgs,
                                ![b].pc = IF _should_use_tool(msgs) = "tool_call"
                                          THEN "tools" ELSE "summarize"]
  /\ UNCHANGED <<registry, orch, trigger, st, active, pending, status, runs, refreshVars, serviceVars>>

\* ToolNode: executes the requested operation, appends its result, back to reason
Tools(b) ==
  /\ InSub(b, "tools")
  /\ sub' = [sub EXCEPT
               ![b].messages = add_messages(@, <<Msg(b, st.iteration_count,
                                                     2 * sub[b].rounds + 1, FALSE)>>),
               ![b].rounds = @ + 1,
               ![b].pc = "reason"]
  /\ UNCHANGED <<registry, orch, trigger, st, active, pending, status, runs, refreshVars, serviceVars>>

\* the MetricsResult / LogsResult of one pass
Result(b, s) == [by |-> b, plan |-> s.plan.ver]

\* the sub-graph's final state as wrapped() receives it from ainvoke
SubResult(b, s, msgs, results) ==
  [k \in StateKeys |->
     IF k = "messages" THEN msgs
     ELSE IF k = ResultKey(b) THEN results
     ELSE s[k]]

\* wrapped(): {k: v for k, v in result.items() if k in output_keys}
Filter(result, keys) == [k \in (DOMAIN result) \cap keys |-> result[k]]

\* MetricsAgent._summarize / LogsAgent._summarize, the end of the sub-graph and
\* the return of wrapped()
Summarize(b) ==
  /\ InSub(b, "summarize")
  /\ LET msgs == add_messages(sub[b].messages,
                              <<Msg(b, st.iteration_count, 2 * sub[b].rounds + 1, FALSE)>>)
         results == _merge_list(sub[b].results, <<Result(b, st)>>)
     IN Commit(b, Filter(SubResult(b, st, msgs, results), output_keys(b)))
  /\ UNCHANGED <<registry, orch, trigger, refreshVars, serviceVars>>

\* ---------------------------------------------------------------- evaluation and report

\* _evaluate_results: the verdict of the completion service; the feedback is written
\* only with an insufficient verdict
\* variant: the feedback is written with every verdict
EvaluateResults_FeedbackAlways ==
  /\ Running("evaluate_results")
  /\ \E is_complete \in BOOLEAN :
       Commit("evaluate_results",
              [k \in {"messages", "investigation_complete", "evaluation_feedback"} |->
                 IF k = "messages"
                 THEN <<Msg("evaluate_results", st.iteration_count, 0, FALSE)>>
                 ELSE IF k = "investigation_complete" THEN is_complete
                 ELSE st.iteration_count])
  /\ UNCHANGED <<registry, orch, trigger, refreshVars, serviceVars>>

EvaluateResults ==
  /\ Running("evaluate_results")
  /\ \E is_complete \in BOOLEAN :
       Commit("evaluate_results",
              [k \in (IF is_complete THEN {"messages", "investigation_complete"}
                      ELSE {"messages", "investigation_complete", "evaluation_feedback"}) |->
                 IF k = "messages"
                 THEN <<Msg("evaluate_results", st.iteration_count, 0, FALSE)>>
                 ELSE IF k = "investigation_complete" THEN is_complete
                 ELSE st.iteration_count])
  /\ UNCHANGED <<registry, orch, trigger, refreshVars, serviceVars>>

\* _evaluate_results, _parse_evaluation_feedback raising AttributeError on a
\* reply whose JSON is not an object: nothing catches it, the node returns no
\* update and the run fails
EvaluateResultsFails ==
  /\ Running("evaluate_results")
  /\ status' = "error"
  /\ active' = {}
  /\ pending' = <<>>
  /\ UNCHANGED <<registry, orch, trigger, st, sub, runs, refreshVars, serviceVars>>

\* the generate_rca node: RCAAgent's sub-graph (correlate, reason,
\* generate_report, one response appended by each) run by wrapped() with
\* output_keys = None, so the whole final state is the node's update: the
\* keys that have a value by then. metrics_results and logs_results have one
\* when their branch exists, evaluation_feedback once a verdict wrote it
GenerateRCA ==
  /\ Running("generate_rca")
  /\ LET msgs == add_messages(st.messages,
                              <<Msg("generate_rca", st.iteration_count, 0, FALSE),
                                Msg("generate_rca", st.iteration_count, 1, FALSE),
                                Msg("generate_rca", st.iteration_count, 2, FALSE)>>)
         result == [st EXCEPT !.messages = msgs, !.rca_report = TRUE]
         unset == {k \in {"metrics_results", "logs_results"} :
                     \E b \in Branches : ResultKey(b) = k /\ b \notin orch.graph.nodes}
                  \cup {k \in {"evaluation_feedback"} : st.evaluation_feedback = 0}
     IN Commit("generate_rca",
               Filter(result, output_keys("generate_rca") \ unset))
  /\ UNCHANGED <<registry, orch, trigger, refreshVars, serviceVars>>

\* the generate_rca node, _parse_report raising TypeError on a report whose
\* root_causes is not a list of objects (only JSONDecodeError and ValueError are
\* caught): the sub-graph's exception leaves wrapped() and the run fails
GenerateRCAFails ==
  /\ Running("generate_rca")
  /\ status' = "error"
  /\ active' = {}
  /\ pending' = <<>>
  /\ UNCHANGED <<registry, orch, trigger, st, sub, runs, refreshVars, serviceVars>>

\* ---------------------------------------------------------------- one investigation run

\* no invocation in progress
NoCall == [pc |-> "idle", session |-> FALSE, attempt_number |-> 0, sleeps |-> <<>>,
           response |-> [none |-> TRUE], result |-> [none |-> TRUE], exc |-> "none"]

\* results: dict[str, bool] = {} of a pass that has not probed yet; closing:
\* the pass is leaving the async with block of a probe that was answered
NoResults == [results |-> <<>>, raised |-> FALSE, closing |-> FALSE]

NoTask == [pc |-> "none", fresh |-> {}, tool |-> FALSE, env |-> "none"]

\* no node function in execution
NoStage == [node |-> "none", pc |-> "idle", input |-> <<>>, reply |-> <<>>, output |-> <<>>]

\* no execution of _validate_queries in progress
NoValidation == [pc |-> "idle", attempt |-> 0, candidate_promql |-> <<>>,
                 candidate_logql |-> <<>>, last_response |-> FALSE, requests |-> 0,
                 plan |-> [promql_queries |-> <<>>, logql_queries |-> <<>>],
                 result |-> {}]

Init ==
  /\ registry \in [Backends -> BOOLEAN]
  /\ orch = _rebuild_agents_and_graph(registry)
  /\ trigger \in Triggers
  /\ st = InitialState
  /\ active = {"discover_environment"}
  /\ pending = <<>>
  /\ sub = [b \in Branches |-> IdleSub]
  /\ status = "running"
  /\ runs = [n \in AllNodes |-> 0]
  /\ lock = 0
  /\ task = [i \in 1..NumInv |-> NoTask]
  /\ pass = [p \in 0..NumInv |-> 0]
  /\ compiled = [i \in 1..NumInv |-> {}]
  /\ check_results = [p \in 0..NumInv |-> NoResults]
  /\ call = NoCall
  /\ vq = NoValidation
  /\ stage = NoStage

Next ==
  \/ DiscoverEnvironment
  \/ AnalyzeInput
  \/ PlanInvestigation
  \/ PlanInvestigationFails
  \/ ValidateQueries
  \/ ValidateQueriesFails
  \/ ResolveTimeRange
  \/ ResolveTimeRangeInterrupt
  \/ \E b \in Branches : Reason(b)
  \/ \E b \in Branches : Tools(b)
  \/ \E b \in Branches : Summarize(b)
  \/ EvaluateResults
  \/ EvaluateResultsFails
  \/ GenerateRCA
  \/ GenerateRCAFails

Spec == Init /\ [][Next]_vars

\* every completion call and remote operation returns: a scheduled node that
\* can return does return
SpecFair == Spec /\ WF_vars(Next)

\* ---------------------------------------------------------------- health refresh before a run

Inv == 1..NumInv
\* the pass started by the /health endpoint; pass i is investigation i's
EndpointPass == 0

\* OrchestratorAgent.refresh_health: the orchestrator after the call
\* variant: the registry is stored but the workflow is not rebuilt
refresh_health_Stale(o, reg) == o

refresh_health(o, reg) == _rebuild_agents_and_graph(reg)

\* _refresh_orchestrator_health: async with _health_refresh_lock, then the
\* first statement of registry.health_check()
AcquireLock(i) ==
  /\ task[i].pc = "created"
  /\ lock = 0
  /\ lock' = i
  /\ task' = [task EXCEPT ![i].pc = "checking"]
  /\ pass' = [pass EXCEPT ![i] = 1]
  /\ check_results' = [check_results EXCEPT ![i] = NoResults]
  /\ UNCHANGED <<registry, orch, engineVars, serviceVars, compiled>>

\* the status codes a probe's response carries
StatusCodes == {200, 404, 500}

\* health_check: conn.healthy = response.status_code == 200 for grafana,
\* response.status_code < 500 for the others
healthy(name, status_code) ==
  IF name = "grafana" THEN status_code = 200 ELSE status_code < 500

\* pass p is inside the loop over the connections, waiting for a probe's answer
Probing(p) ==
  /\ pass[p] \in 1..Len(AllConnections)
  /\ ~check_results[p].raised
  /\ ~check_results[p].closing

\* results[conn.name] = v
SetResult(results, name, v) ==
  [c \in (DOMAIN results) \cup {name} |-> IF c = name THEN v ELSE results[c]]

\* ToolRegistry.health_check: the probe of the next connection is answered and
\* the connection's flag is written inside the async with block; leaving the
\* block awaits the close of the client, where other passes run
Probe(p) ==
  /\ Probing(p)
  /\ \E status_code \in StatusCodes :
       registry' = [registry EXCEPT ![AllConnections[pass[p]]] =
                      healthy(AllConnections[pass[p]], status_code)]
  /\ check_results' = [check_results EXCEPT ![p].closing = TRUE]
  /\ UNCHANGED <<orch, engineVars, serviceVars, lock, task, pass, compiled>>

\* the client is closed: results[conn.name] = conn.healthy reads the flag as
\* it is now, and the loop goes on to the next connection
StoreResult(p) ==
  /\ check_results[p].closing
  /\ check_results' = [check_results EXCEPT
                         ![p].closing = FALSE,
                         ![p].results = SetResult(@, AllConnections[pass[p]],
                                                  registry[AllConnections[pass[p]]])]
  /\ pass' = [pass EXCEPT ![p] = @ + 1]
  /\ UNCHANGED <<registry, orch, engineVars, serviceVars, lock, task, compiled>>

\* one turn of the loop, the probe raises httpx.HTTPError: the client is
\* closed on the way out of the async with block, then except httpx.HTTPError
\* writes the flag and the result is stored with no await in between
ProbeHTTPError(p) ==
  /\ Probing(p)
  /\ registry' = [registry EXCEPT ![AllConnections[pass[p]]] = FALSE]
  /\ check_results' = [check_results EXCEPT
                         ![p].results = SetResult(@, AllConnections[pass[p]], FALSE)]
  /\ pass' = [pass EXCEPT ![p] = @ + 1]
  /\ UNCHANGED <<orch, engineVars, serviceVars, lock, task, compiled>>

\* one turn of the loop, the probe raises an exception that is not an
\* httpx.HTTPError (httpx.InvalidURL, for one): no except clause matches and
\* the exception leaves health_check
ProbeRaises(p) ==
  /\ Probing(p)
  /\ check_results' = [check_results EXCEPT ![p].raised = TRUE]
  /\ UNCHANGED <<registry, orch, engineVars, serviceVars, lock, task, pass, compiled>>

\* the exception reaches the caller of health_check: in
\* _refresh_orchestrator_health it leaves the async with block (releasing the
\* lock) and then the background task; the /health request fails
HealthCheckRaised(p) ==
  /\ check_results[p].raised
  /\ check_results' = [check_results EXCEPT ![p] = NoResults]
  /\ pass' = [pass EXCEPT ![p] = 0]
  /\ IF p \in 1..NumInv
     THEN /\ lock' = 0
          /\ task' = [task EXCEPT ![p].pc = "crashed"]
     ELSE UNCHANGED <<lock, task>>
  /\ UNCHANGED <<registry, orch, engineVars, serviceVars, compiled>>

\* _refresh_orchestrator_health after health_check returned: refresh_health,
\* and the lock is released
RefreshHealth(i) ==
  /\ task[i].pc = "checking"
  /\ pass[i] = Len(AllConnections) + 1
  /\ orch' = refresh_health(orch, registry)
  /\ task' = [j \in Inv |->
                IF j = i THEN [task[j] EXCEPT !.pc = "refreshed",
                                              !.fresh = {BranchesOf(registry)}]
                ELSE IF task[j].pc = "refreshed"
                THEN [task[j] EXCEPT !.fresh = @ \cup {BranchesOf(registry)}]
                ELSE task[j]]
  /\ pass' = [pass EXCEPT ![i] = 0]
  /\ lock' = 0
  /\ check_results' = [check_results EXCEPT ![i] = NoResults]
  /\ UNCHANGED <<registry, engineVars, serviceVars, compiled>>

\* OrchestratorAgent.compile as _run_alert_investigation calls it
Compile(i) ==
  /\ task[i].pc = "refreshed"
  /\ compiled' = [compiled EXCEPT ![i] = BranchSet(orch.graph)]
  /\ task' = [task EXCEPT ![i].pc = "running", ![i].tool = orch.grafana_tool,
                          ![i].fresh = @ \cap {BranchSet(orch.graph)}]
  /\ UNCHANGED <<registry, orch, engineVars, serviceVars, lock, pass, check_results>>

\* the compiled workflow's first node: the bound method _discover_environment
\* reads self.grafana_tool when it runs
Discover(i) ==
  /\ task[i].pc = "running"
  /\ task[i].env = "none"
  /\ task' = [task EXCEPT ![i].env = IF orch.grafana_tool THEN "discovered" ELSE "empty"]
  /\ UNCHANGED <<registry, orch, engineVars, serviceVars, lock, pass, compiled, check_results>>

\* the run ends: complete_investigation or fail_investigation; the compiled
\* workflow and the run's state are dropped
FinishRun(i) ==
  /\ task[i].pc = "running"
  /\ task' = [task EXCEPT ![i].pc = "finished", ![i].tool = NoTask.tool,
                          ![i].env = NoTask.env]
  /\ UNCHANGED <<registry, orch, engineVars, serviceVars, lock, pass, compiled, check_results>>

\* GET /health: registry.health_check() without the lock
EndpointStart ==
  /\ pass[EndpointPass] = 0
  /\ pass' = [pass EXCEPT ![EndpointPass] = 1]
  /\ check_results' = [check_results EXCEPT ![EndpointPass] = NoResults]
  /\ UNCHANGED <<registry, orch, engineVars, serviceVars, lock, task, compiled>>

EndpointReturn ==
  /\ pass[EndpointPass] = Len(AllConnections) + 1
  /\ pass' = [pass EXCEPT ![EndpointPass] = 0]
  /\ check_results' = [check_results EXCEPT ![EndpointPass] = NoResults]
  /\ UNCHANGED <<registry, orch, engineVars, serviceVars, lock, task, compiled>>

\* the application after AppState.initialize, with NumInv investigations created
InitRefresh ==
  /\ registry \in [Backends -> BOOLEAN]
  /\ orch = _rebuild_agents_and_graph(registry)
  /\ trigger \in {x \in Triggers : x.trigger_type = "alert" /\ ~x.has_max}
  /\ st = InitialState
  /\ active = {}
  /\ pending = <<>>
  /\ sub = [b \in Branches |-> IdleSub]
  /\ status = "idle"
  /\ runs = [n \in AllNodes |-> 0]
  /\ lock = 0
  /\ task = [i \in Inv |-> [NoTask EXCEPT !.pc = "created"]]
  /\ pass = [p \in 0..NumInv |-> 0]
  /\ compiled = [i \in Inv |-> {}]
  /\ check_results = [p \in 0..NumInv |-> NoResults]
  /\ call = NoCall
  /\ vq = NoValidation
  /\ stage = NoStage

NextRefresh ==
  \/ \E i \in Inv : AcquireLock(i)
  \/ \E p \in 0..NumInv : Probe(p)
  \/ \E p \in 0..NumInv : StoreResult(p)
  \/ \E p \in 0..NumInv : ProbeHTTPError(p)
  \/ \E p \in 0..NumInv : ProbeRaises(p)
  \/ \E p \in 0..NumInv : HealthCheckRaised(p)
  \/ \E i \in Inv : RefreshHealth(i)
  \/ \E i \in Inv : Compile(i)
  \/ \E i \in Inv : Discover(i)
  \/ \E i \in Inv : FinishRun(i)
  \/ EndpointStart
  \/ EndpointReturn

SpecRefresh == InitRefresh /\ [][NextRefresh]_vars

\* ---------------------------------------------------------------- the remote tool client

\* stop=stop_after_attempt(3)
StopAfterAttempt == 3

\* the content parts of a response envelope
TextParts == {[type |-> "text", text |-> t] : t \in {"a", "b"}}
Parts == TextParts \cup {[type |-> "image", mimeType |-> "image/png", data |-> "d"],
                         [type |-> "resource", resource |-> "r"]}

\* CallToolResult: isError and at most MaxParts content parts
Responses ==
  [isError : BOOLEAN,
   content : UNION {[1..n -> Parts] : n \in 0..MaxParts}]

\* what an attempt can raise. The transport failures: the builtin errors, the
\* ExceptionGroup in which the transport's task group hands on a failed
\* connection (the one _discover_environment catches from the same session())
\* and httpx.ConnectError, an httpx.HTTPError that is no OSError; and any
\* other error
Exceptions == {"ConnectionError", "TimeoutError", "OSError",
               "ExceptionGroup", "ConnectError", "McpError"}

RECURSIVE error_text(_)
\* _extract_result, isError branch: the text parts concatenated in order
error_text(content) ==
  IF content = <<>> THEN ""
  ELSE (IF Head(content).type = "text" THEN Head(content).text ELSE "")
       \o error_text(Tail(content))

\* _extract_result, the entry appended for one content part
extracted(part) ==
  IF part.type = "text" THEN [type |-> "text", text |-> part.text]
  ELSE IF part.type = "image"
  THEN [type |-> "image", mimeType |-> part.mimeType, data |-> part.data]
  ELSE [type |-> "resource", resource |-> part.resource]

\* MCPClient._extract_result
\* variant: an error response is extracted like any other response
_extract_result_NoTag(result) ==
  [content |-> [i \in DOMAIN result.content |-> extracted(result.content[i])]]

_extract_result(result) ==
  IF result.isError THEN [error |-> error_text(result.content)]
  ELSE [content |-> [i \in DOMAIN result.content |-> extracted(result.content[i])]]

\* MCPClient.session: the except clauses around the connection, which name
\* TimeoutError, ConnectionError and OSError; any other exception passes
session(e) ==
  IF e = "TimeoutError" THEN "MCPTimeoutError"
  ELSE IF e \in {"ConnectionError", "OSError"} THEN "MCPConnectionError"
  ELSE e

\* retry_if_exception_type(_RETRYABLE_EXCEPTIONS + (MCPConnectionError,))
retry_if_exception_type(e) ==
  e \in {"ConnectionError", "TimeoutError", "OSError",
         "MCPConnectionError", "MCPTimeoutError"}

stop_after_attempt(attempt_number) == attempt_number >= StopAfterAttempt

\* wait_exponential(multiplier=1, min=1, max=10)
wait_exponential(attempt_number) ==
  LET exp == 2 ^ (attempt_number - 1)
  IN Max(1, IF exp <= 10 THEN exp ELSE 10)

\* the server answers the attempt: session.call_tool returns and the
\* invocation returns _extract_result of the response
AttemptReturns ==
  /\ call.pc = "calling"
  /\ \E response \in Responses :
       call' = [call EXCEPT !.pc = "returned", !.response = response,
                            !.result = _extract_result(response)]
  /\ UNCHANGED <<registry, orch, engineVars, refreshVars, vq, stage>>

\* the attempt raises. BaseMCPTool._call_tool on a bound session and
\* MCPClient.call_tool_with_session let the exception out; MCPClient.call_tool
\* raises what session() makes of it, and tenacity decides whether to sleep
\* and try again
AttemptRaises ==
  /\ call.pc = "calling"
  /\ \E e \in Exceptions :
       IF call.session
       THEN call' = [call EXCEPT !.pc = "raised", !.exc = e]
       ELSE IF retry_if_exception_type(session(e)) /\ ~stop_after_attempt(call.attempt_number)
       THEN call' = [call EXCEPT !.pc = "sleeping", !.exc = session(e),
                                 !.sleeps = Append(@, wait_exponential(call.attempt_number))]
       ELSE call' = [call EXCEPT !.pc = "raised", !.exc = session(e)]
  /\ UNCHANGED <<registry, orch, engineVars, refreshVars, vq, stage>>

\* the backoff sleep is over: tenacity calls call_tool again
Retry ==
  /\ call.pc = "sleeping"
  /\ call' = [call EXCEPT !.pc = "calling", !.attempt_number = @ + 1]
  /\ UNCHANGED <<registry, orch, engineVars, refreshVars, vq, stage>>

\* one invocation, with or without a bound session
InitClient ==
  /\ registry = [c \in Backends |-> TRUE]
  /\ orch = _rebuild_agents_and_graph(registry)
  /\ trigger \in {x \in Triggers : x.trigger_type = "alert" /\ ~x.has_max}
  /\ st = InitialState
  /\ active = {}
  /\ pending = <<>>
  /\ sub = [b \in Branches |-> IdleSub]
  /\ status = "idle"
  /\ runs = [n \in AllNodes |-> 0]
  /\ lock = 0
  /\ task = [i \in 1..NumInv |-> NoTask]
  /\ pass = [p \in 0..NumInv |-> 0]
  /\ compiled = [i \in 1..NumInv |-> {}]
  /\ check_results = [p \in 0..NumInv |-> NoResults]
  /\ \E s \in BOOLEAN :
       call = [NoCall EXCEPT !.pc = "calling", !.session = s, !.attempt_number = 1]
  /\ vq = NoValidation
  /\ stage = NoStage

NextClient ==
  \/ AttemptReturns
  \/ AttemptRaises
  \/ Retry

SpecClient == InitClient /\ [][NextClient]_vars

\* ---------------------------------------------------------------- the query validator

\* A query is its text cut into words: the string is the words joined by one
\* space.  The words are the ones the validator's patterns tell apart.
\* a label matcher with a double-quoted value, one with a single-quoted value,
\* a quoted time comparison, and a template-variable placeholder
DQ == "job=\"x\""
SQ == "job='x'"
TIME == "timestamp>='t'"
VAR == "$v"
Tokens == {"{", "}", "{{", "}}", ",", "AND", "OR", "up", DQ, SQ, TIME, VAR}
Queries == UNION {[1..n -> Tokens] : n \in 0..MaxQueryLen}

\* corrected_query=None
None == <<>>

Has(query, word) == \E i \in DOMAIN query : query[i] = word
Min(S) == CHOOSE x \in S : \A y \in S : x <= y

\* the elements of s at the positions in K, in order
RECURSIVE Pick(_, _)
Pick(s, K) ==
  IF s = <<>> THEN <<>>
  ELSE Pick(SubSeq(s, 1, Len(s) - 1), K)
         \o (IF Len(s) \in K THEN <<s[Len(s)]>> ELSE <<>>)

\* the characters the patterns see: a doubled brace is two braces
RECURSIVE text(_)
text(query) ==
  IF query = <<>> THEN <<>>
  ELSE (IF Head(query) = "{{" THEN <<"{", "{">>
        ELSE IF Head(query) = "}}" THEN <<"}", "}">>
        ELSE <<Head(query)>>) \o text(Tail(query))

\* SQL_PATTERNS that a word of Tokens can match (AND, OR, >= before a quote),
\* each with the error it reports
SQL_PATTERNS == <<[pattern |-> "AND", error |-> "sql:AND"],
                  [pattern |-> "OR", error |-> "sql:OR"],
                  [pattern |-> TIME, error |-> "sql:>="]>>

\* for pattern, description in self.SQL_PATTERNS: if re.search(...): errors.append
\* variant: only the first pattern is searched for
sql_errors_FirstOnly(query) ==
  IF Has(query, SQL_PATTERNS[1].pattern) THEN <<SQL_PATTERNS[1].error>> ELSE <<>>

sql_errors(query) ==
  LET found(p) == Has(query, p.pattern)
      hits == SelectSeq(SQL_PATTERNS, found)
  IN [i \in 1..Len(hits) |-> hits[i].error]

\* re.search(r"\{([^}]*)\}", corrected): the text between the first "{" and
\* the first "}" after it
label_match(query) ==
  LET opens == {i \in DOMAIN query : query[i] = "{"}
      closes == {j \in DOMAIN query : query[j] = "}" /\ j > Min(opens)}
  IN IF opens = {} \/ closes = {}
     THEN [found |-> FALSE, content |-> <<>>]
     ELSE [found |-> TRUE, content |-> SubSeq(query, Min(opens) + 1, Min(closes) - 1)]

\* label_content.split(",")
RECURSIVE split(_)
split(content) ==
  LET commas == {i \in DOMAIN content : content[i] = ","}
  IN IF commas = {} THEN <<content>>
     ELSE <<SubSeq(content, 1, Min(commas) - 1)>>
            \o split(SubSeq(content, Min(commas) + 1, Len(content)))

\* _validate_label_matchers: a matcher is name OP quoted value; one that holds
\* a single-quoted value is only warned about
_validate_label_matchers(label_content) ==
  LET nonempty(m) == m # <<>>
      matchers == SelectSeq(split(label_content), nonempty)
      invalid(m) == /\ ~(Len(m) = 1 /\ m[1] \in {DQ, SQ})
                    /\ ~(Has(m, SQ) \/ Has(m, TIME))
      bad == SelectSeq(matchers, invalid)
  IN [i \in 1..Len(bad) |-> "matcher"]

\* the brace balance check
braces(query) ==
  IF Cardinality({i \in DOMAIN query : query[i] = "{"})
       # Cardinality({i \in DOMAIN query : query[i] = "}"})
  THEN <<"braces">> ELSE <<>>

\* METRIC_PATTERN.match(first_token), first_token the text before the first "{"
METRIC_PATTERN(query) ==
  LET opens == {i \in DOMAIN query : query[i] = "{"}
      first_token == IF opens = {} THEN query ELSE SubSeq(query, 1, Min(opens) - 1)
  IN first_token # <<>> /\ first_token[1] \in {"AND", "OR", "up", DQ, SQ, TIME}

validate_promql(query) ==
  LET corrected == text(query)
      matchers == IF label_match(corrected).found
                  THEN _validate_label_matchers(label_match(corrected).content)
                  ELSE <<>>
      errors == IF corrected = <<>> THEN <<"empty">>
                ELSE sql_errors(corrected)
                       \o (IF METRIC_PATTERN(corrected) THEN <<>> ELSE <<"metric">>)
                       \o matchers
                       \o braces(corrected)
  IN [is_valid |-> errors = <<>>, corrected_query |-> None, errors |-> errors]

\* _attempt_logql_correction: single quotes to double quotes, AND between
\* words to a comma, time comparisons (with the comma before them) removed,
\* the result wrapped in braces unless it starts with one; "{}" gives the
\* query back
_attempt_logql_correction(query) ==
  LET quoted == [i \in DOMAIN query |-> IF query[i] = SQ THEN DQ ELSE query[i]]
      run(i) == Min({s \in 1..i : \A k \in s..i : quoted[k] = "AND"})
      replaced(i) == /\ quoted[i] = "AND"
                     /\ 1 < i /\ i < Len(quoted)
                     /\ (i - Max(run(i), 2)) % 2 = 0
      joined == [i \in DOMAIN quoted |-> IF replaced(i) THEN "," ELSE quoted[i]]
      kept == {i \in DOMAIN joined :
                 /\ joined[i] # TIME
                 /\ ~(joined[i] = "," /\ i < Len(joined) /\ joined[i + 1] = TIME)}
      corrected == Pick(joined, kept)
  IN IF corrected = <<>> THEN query
     ELSE IF corrected[1] = "{" THEN corrected
     ELSE <<"{">> \o corrected \o <<"}">>

validate_logql(query) ==
  LET stripped == text(query)
      selector == stripped # <<>> /\ stripped[1] = "{" /\ Has(stripped, "}")
      corrected == IF selector THEN stripped ELSE _attempt_logql_correction(stripped)
      labels == label_match(corrected)
      errors == IF stripped = <<>> THEN <<"empty">>
                ELSE sql_errors(stripped)
                       \o (IF selector THEN <<>> ELSE <<"no_selector">>)
                       \o (IF ~labels.found THEN <<>>
                           ELSE IF labels.content = <<>> THEN <<"empty_selector">>
                           ELSE _validate_label_matchers(labels.content))
                       \o (IF Has(corrected, TIME) THEN <<"time_in_query">> ELSE <<>>)
                       \o braces(corrected)
  IN [is_valid |-> errors = <<>>,
      corrected_query |-> IF stripped = <<>> \/ corrected = stripped THEN None
                          ELSE corrected,
      errors |-> errors]

\* validate_fn of _validate_query_list
validate(query, query_type) ==
  IF query_type = "promql" THEN validate_promql(query) ELSE validate_logql(query)

\* sanitize_query: doubled braces collapsed, placeholders left in place
sanitize_query(query) ==
  [i \in DOMAIN query |-> IF query[i] = "{{" THEN "{"
                          ELSE IF query[i] = "}}" THEN "}" ELSE query[i]]

\* variant: no query is taken to hold a placeholder
contains_grafana_variables_Never(query) == FALSE

contains_grafana_variables(query) == Has(query, VAR)

\* _validate_query_list: the valid queries and the error entries of a list
\* variant: a corrected query is stored without validating it again
RECURSIVE _validate_query_list_Unchecked(_, _)
_validate_query_list_Unchecked(queries, query_type) ==
  IF queries = <<>> THEN [valid |-> <<>>, errors |-> <<>>]
  ELSE LET query == queries[Len(queries)]
           before == _validate_query_list_Unchecked(SubSeq(queries, 1, Len(queries) - 1),
                                                    query_type)
           sanitized == sanitize_query(query)
           result == validate(sanitized, query_type)
           error == [type_label |-> query_type, query |-> query, errors |-> result.errors]
       IN IF contains_grafana_variables(sanitized) THEN before
          ELSE IF result.is_valid
          THEN [before EXCEPT !.valid = Append(@, sanitized)]
          ELSE IF result.corrected_query # None
          THEN [before EXCEPT !.valid = Append(@, result.corrected_query)]
          ELSE [before EXCEPT !.errors = Append(@, error)]

RECURSIVE _validate_query_list(_, _)
_validate_query_list(queries, query_type) ==
  IF queries = <<>> THEN [valid |-> <<>>, errors |-> <<>>]
  ELSE LET query == queries[Len(queries)]
           before == _validate_query_list(SubSeq(queries, 1, Len(queries) - 1), query_type)
           sanitized == sanitize_query(query)
           result == validate(sanitized, query_type)
           error == [type_label |-> query_type, query |-> query, errors |-> result.errors]
       IN IF contains_grafana_variables(sanitized) THEN before
          ELSE IF result.is_valid
          THEN [before EXCEPT !.valid = Append(@, sanitized)]
          ELSE IF result.corrected_query # None
                    /\ validate(result.corrected_query, query_type).is_valid
          THEN [before EXCEPT !.valid = Append(@, result.corrected_query)]
          ELSE [before EXCEPT !.errors = Append(@, error)]

\* ---------------------------------------------------------------- the validate_queries stage

\* plans of the completion service: the list of the other language next to
\* the plan's one free query, and the plans it answers a regeneration request with
OtherQueries == {<<>>, <<<<"up">>>>, <<<<"{", DQ, "}">>>>}
RegeneratedPlans ==
  {[promql_queries |-> <<>>, logql_queries |-> <<>>],
   [promql_queries |-> <<<<"up", "AND", "up">>>>, logql_queries |-> <<<<"up">>>>],
   [promql_queries |-> <<<<"up", "AND", "up">>, <<"up">>>>, logql_queries |-> <<>>],
   [promql_queries |-> <<<<VAR>>>>, logql_queries |-> <<<<SQ, "AND", SQ>>>>],
   [promql_queries |-> <<<<"{", DQ, "}">>>>, logql_queries |-> <<<<SQ, "OR", SQ>>>>]}

\* result: {"plan": plan}, with "messages" once a regeneration was requested
ValidationResult(last_response) ==
  IF last_response THEN {"plan", "messages"} ELSE {"plan"}

\* if attempt >= self._MAX_VALIDATION_RETRIES: break
\* variant: one more pass before giving up
Exhausted_OneMore(attempt) == attempt >= _MAX_VALIDATION_RETRIES + 1

Exhausted(attempt) == attempt >= _MAX_VALIDATION_RETRIES

\* _validate_queries, one pass of its loop: both candidate lists are validated;
\* with a valid query the valid lists are stored and the stage returns, at the
\* ceiling the lists are emptied and the stage returns, otherwise a
\* regeneration is requested
\* variant: at the ceiling the candidate lists are left in the plan
ValidationPass_KeepsQueries ==
  /\ vq.pc = "validating"
  /\ LET promql == _validate_query_list(vq.candidate_promql, "promql")
         logql == _validate_query_list(vq.candidate_logql, "logql")
     IN vq' = IF promql.valid # <<>> \/ logql.valid # <<>>
              THEN [vq EXCEPT !.pc = "returned",
                              !.plan = [promql_queries |-> promql.valid,
                                        logql_queries |-> logql.valid],
                              !.result = ValidationResult(vq.last_response)]
              ELSE IF Exhausted(vq.attempt)
              THEN [vq EXCEPT !.pc = "returned",
                              !.plan = [promql_queries |-> vq.candidate_promql,
                                        logql_queries |-> vq.candidate_logql],
                              !.result = ValidationResult(vq.last_response)]
              ELSE [vq EXCEPT !.pc = "regenerating"]
  /\ UNCHANGED <<registry, orch, engineVars, refreshVars, call, stage>>

ValidationPass ==
  /\ vq.pc = "validating"
  /\ LET promql == _validate_query_list(vq.candidate_promql, "promql")
         logql == _validate_query_list(vq.candidate_logql, "logql")
     IN vq' = IF promql.valid # <<>> \/ logql.valid # <<>>
              THEN [vq EXCEPT !.pc = "returned",
                              !.plan = [promql_queries |-> promql.valid,
                                        logql_queries |-> logql.valid],
                              !.result = ValidationResult(vq.last_response)]
              ELSE IF Exhausted(vq.attempt)
              THEN [vq EXCEPT !.pc = "returned",
                              !.plan = [promql_queries |-> <<>>, logql_queries |-> <<>>],
                              !.result = ValidationResult(vq.last_response)]
              ELSE [vq EXCEPT !.pc = "regenerating"]
  /\ UNCHANGED <<registry, orch, engineVars, refreshVars, call, stage>>

\* _request_query_regeneration, _parse_plan succeeding: the next pass
\* validates the lists of the new plan
RequestQueryRegeneration ==
  /\ vq.pc = "regenerating"
  /\ \E new_plan \in RegeneratedPlans :
       vq' = [vq EXCEPT !.pc = "validating",
                        !.attempt = @ + 1,
                        !.requests = @ + 1,
                        !.last_response = TRUE,
                        !.candidate_promql = new_plan.promql_queries,
                        !.candidate_logql = new_plan.logql_queries]
  /\ UNCHANGED <<registry, orch, engineVars, refreshVars, call, stage>>

\* _request_query_regeneration, _parse_plan raising ValueError: the stage raises
RequestQueryRegenerationFails ==
  /\ vq.pc = "regenerating"
  /\ vq' = [vq EXCEPT !.pc = "raised", !.requests = @ + 1]
  /\ UNCHANGED <<registry, orch, engineVars, refreshVars, call, stage>>

\* one execution of the stage on a plan with one query of one language and
\* the list of the other language
InitValidate ==
  /\ registry = [c \in Backends |-> TRUE]
  /\ orch = _rebuild_agents_and_graph(registry)
  /\ trigger \in {x \in Triggers : x.trigger_type = "alert" /\ ~x.has_max}
  /\ st = InitialState
  /\ active = {}
  /\ pending = <<>>
  /\ sub = [b \in Branches |-> IdleSub]
  /\ status = "idle"
  /\ runs = [n \in AllNodes |-> 0]
  /\ lock = 0
  /\ task = [i \in 1..NumInv |-> NoTask]
  /\ pass = [p \in 0..NumInv |-> 0]
  /\ compiled = [i \in 1..NumInv |-> {}]
  /\ check_results = [p \in 0..NumInv |-> NoResults]
  /\ call = NoCall
  /\ \E query \in Queries, query_type \in {"promql", "logql"}, other \in OtherQueries :
       vq = [NoValidation EXCEPT
               !.pc = "validating",
               !.candidate_promql = IF query_type = "promql" THEN <<query>> ELSE other,
               !.candidate_logql = IF query_type = "logql" THEN <<query>> ELSE other]
  /\ stage = NoStage

NextValidate ==
  \/ ValidationPass
  \/ RequestQueryRegeneration
  \/ RequestQueryRegenerationFails

SpecValidate == InitValidate /\ [][NextValidate]_vars

\* ---------------------------------------------------------------- single node functions

\* The report output of the completion service, cut into words (the string is
\* the words joined by one space): plain text, the opening fence of a json
\* block and the closing fence (three backquotes, written fence_json and
\* fence), braces, a member of the report object, and a member whose value
\* is null.
ReportTokens == {"text", "fence_json", "fence", "{", "}",
                 "\"metrics_summary\": \"m\"", "\"root_causes\": null"}

\* RCAAgent._extract_json: the text inside the json fence, else the text from
\* the first "{" to the last "}"; text.index raising ValueError is found = FALSE
_extract_json(txt) ==
  LET fences == {i \in DOMAIN txt : txt[i] = "fence_json"}
      closing == {j \in DOMAIN txt : j > Min(fences) /\ txt[j] \in {"fence", "fence_json"}}
      opens == {i \in DOMAIN txt : txt[i] = "{"}
      closes == {j \in DOMAIN txt : txt[j] = "}"}
      last == CHOOSE j \in closes : \A k \in closes : k <= j
  IN IF fences # {}
     THEN IF closing = {} THEN [found |-> FALSE, json |-> <<>>]
          ELSE [found |-> TRUE, json |-> SubSeq(txt, Min(fences) + 1, Min(closing) - 1)]
     ELSE IF opens = {} \/ closes = {} THEN [found |-> FALSE, json |-> <<>>]
     ELSE [found |-> TRUE, json |-> SubSeq(txt, Min(opens), last)]

\* RCAAgent._parse_report: the report of a JSON object; for text that holds
\* no JSON object the output itself as the one root cause, confidence 0.5
\* (in tenths); iterating over a null "root_causes" raises TypeError
\* variant: the parse failure is raised instead of replaced by the output
_parse_report_NoFallback(content) ==
  LET found_json == _extract_json(content)
      json_str == found_json.json
      members == SubSeq(json_str, 2, Len(json_str) - 1)
      decoded == /\ found_json.found
                 /\ Len(json_str) \in {2, 3}
                 /\ json_str[1] = "{" /\ json_str[Len(json_str)] = "}"
                 /\ \A i \in DOMAIN members :
                      members[i] \in {"\"metrics_summary\": \"m\"", "\"root_causes\": null"}
  IN IF ~decoded
     THEN [raised |-> "ValueError", report |-> "none"]
     ELSE IF members = <<"\"root_causes\": null">>
     THEN [raised |-> "TypeError", report |-> "none"]
     ELSE [raised |-> "none",
           report |-> [root_causes |-> <<>>,
                       metrics_summary |-> IF members = <<>> THEN "" ELSE "m"]]

_parse_report(content) ==
  LET found_json == _extract_json(content)
      json_str == found_json.json
      members == SubSeq(json_str, 2, Len(json_str) - 1)
      decoded == /\ found_json.found
                 /\ Len(json_str) \in {2, 3}
                 /\ json_str[1] = "{" /\ json_str[Len(json_str)] = "}"
                 /\ \A i \in DOMAIN members :
                      members[i] \in {"\"metrics_summary\": \"m\"", "\"root_causes\": null"}
  IN IF ~decoded
     THEN [raised |-> "none",
           report |-> [root_causes |-> <<[description |-> content, confidence |-> 5]>>,
                       metrics_summary |-> ""]]
     ELSE IF members = <<"\"root_causes\": null">>
     THEN [raised |-> "TypeError", report |-> "none"]
     ELSE [raised |-> "none",
           report |-> [root_causes |-> <<>>,
                       metrics_summary |-> IF members = <<>> THEN "" ELSE "m"]]

\* RCAAgent._generate_report: the update with the parsed report, or the
\* exception of _parse_report
GenerateReport ==
  /\ stage.node = "generate_report"
  /\ stage.pc = "called"
  /\ LET parsed == _parse_report(stage.input)
     IN stage' = IF parsed.raised # "none"
                 THEN [stage EXCEPT !.pc = "raised", !.output = parsed.raised]
                 ELSE [stage EXCEPT !.pc = "returned",
                                    !.output = [messages |-> <<stage.input>>,
                                                rca_report |-> parsed.report]]
  /\ UNCHANGED <<registry, orch, engineVars, refreshVars, call, vq>>

\* timestamps in half hours; an optional value is <<>> (None) or <<value>>
Times == 0..MaxTime

\* a TimeRange; pydantic checks the two types and nothing else
\* variant: the bounds are stored the other way round
TimeRange_Swapped(start, end) == [start |-> end, end |-> start]

TimeRange(start, end) == [start |-> start, end |-> end]

\* the conversion of the human reply by the completion service, by what the
\* parse makes of it: no JSON in the text, text that is not JSON, a JSON
\* value that is no object, or an object whose "start" and "end" are each
\* missing, a number or null, a string that is no timestamp, or a timestamp
Conversions ==
  [json : {"none", "malformed", "not_object"},
   start : {[kind |-> "missing", at |-> 0]}, end : {[kind |-> "missing", at |-> 0]}]
    \cup (LET FieldValues == [kind : {"missing", "number", "text"}, at : {0}]
                               \cup [kind : {"timestamp"}, at : Times]
          IN [json : {"object"}, start : FieldValues, end : FieldValues])

\* timedelta(minutes=30) around the alert, in half hours
AlertMargin == 1

\* _resolve_time_range_node up to interrupt(): a plan with a range passes; an
\* alert gives [starts_at - 30 min, ends_at or starts_at + 30 min]; a user
\* query with a parsed start gives [start, end or start + 1 h] (an hour is 2
\* half hours); otherwise the node stops in interrupt() to wait for the reply
ResolveTimeRangeNode ==
  /\ stage.node = "resolve_time_range"
  /\ stage.pc = "called"
  /\ LET state == stage.input
         alert == state.alert
         user_query == state.user_query
     IN stage' =
          IF state.plan_time_range # None
          THEN [stage EXCEPT !.pc = "returned", !.output = state.plan_time_range]
          ELSE IF state.trigger_type = "alert" /\ alert # None
          THEN [stage EXCEPT
                  !.pc = "returned",
                  !.output = <<TimeRange(alert[1].starts_at - AlertMargin,
                                         IF alert[1].ends_at # None
                                         THEN alert[1].ends_at[1]
                                         ELSE alert[1].starts_at + AlertMargin)>>]
          ELSE IF user_query # None /\ user_query[1].time_range_start # None
          THEN [stage EXCEPT
                  !.pc = "returned",
                  !.output = <<TimeRange(user_query[1].time_range_start[1],
                                         IF user_query[1].time_range_end # None
                                         THEN user_query[1].time_range_end[1]
                                         ELSE user_query[1].time_range_start[1] + 2)>>]
          ELSE [stage EXCEPT !.pc = "interrupted"]
  /\ UNCHANGED <<registry, orch, engineVars, refreshVars, call, vq>>

\* _resolve_time_range_node from the reply on: the conversion is parsed in a
\* try block that catches JSONDecodeError, ValueError and KeyError and then
\* uses [now - 1 h, now]; data["start"] on a value that is no object and
\* fromisoformat on a value that is no string raise TypeError
ResolveTimeRangeResume ==
  /\ stage.node = "resolve_time_range"
  /\ stage.pc = "interrupted"
  /\ \E response \in Conversions, now \in Times :
       LET start == response.start
           end == response.end
           raised ==
             IF response.json \in {"none", "malformed"} THEN "ValueError"
             ELSE IF response.json = "not_object" THEN "TypeError"
             ELSE IF start.kind = "missing" THEN "KeyError"
             ELSE IF start.kind = "number" THEN "TypeError"
             ELSE IF start.kind = "text" THEN "ValueError"
             ELSE IF end.kind = "missing" THEN "KeyError"
             ELSE IF end.kind = "number" THEN "TypeError"
             ELSE IF end.kind = "text" THEN "ValueError"
             ELSE "none"
       IN stage' =
            IF raised = "none"
            THEN [stage EXCEPT !.pc = "returned", !.reply = response,
                               !.output = <<TimeRange(start.at, end.at)>>]
            ELSE IF raised \in {"ValueError", "KeyError"}
            THEN [stage EXCEPT !.pc = "returned", !.reply = response,
                               !.output = <<TimeRange(now - 2, now)>>]
            ELSE [stage EXCEPT !.pc = "raised", !.reply = response, !.output = <<raised>>]
  /\ UNCHANGED <<registry, orch, engineVars, refreshVars, call, vq>>

\* tools.base._flatten_exception_group: the leaf exceptions of a group
_flatten_exception_group(e) == e.leaves

\* _discover_environment with its discovery helpers: without the grafana tool
\* the empty EnvironmentContext; otherwise the keywords, and inside one
\* session the datasources, the Prometheus names and the Loki labels, each
\* helper keeping what it found before its call raised (except Exception in
\* each helper); a payload that is an error result or no JSON list gives no
\* datasource. An exception of the session is logged, a group by its leaves,
\* and the environment built so far is returned
\* variant: the exception of the session leaves the stage
DiscoverEnvironmentNode_Aborts ==
  /\ stage.node = "discover_environment"
  /\ stage.pc = "called"
  /\ stage' = IF stage.input.grafana_tool /\ stage.input.session.type # "none"
              THEN [stage EXCEPT !.pc = "raised", !.output = <<stage.input.session.type>>]
              ELSE [stage EXCEPT
                      !.pc = "returned",
                      !.output = [environment |-> [investigation_keywords |-> FALSE,
                                                   prometheus_datasource_uid |-> "",
                                                   loki_datasource_uid |-> "",
                                                   available_metrics |-> FALSE,
                                                   loki_labels |-> FALSE],
                                  warning |-> <<>>]]
  /\ UNCHANGED <<registry, orch, engineVars, refreshVars, call, vq>>

DiscoverEnvironmentNode ==
  /\ stage.node = "discover_environment"
  /\ stage.pc = "called"
  /\ LET in == stage.input
         EnvironmentContext == [investigation_keywords |-> FALSE,
                                prometheus_datasource_uid |-> "",
                                loki_datasource_uid |-> "",
                                available_metrics |-> FALSE,
                                loki_labels |-> FALSE]
         found == in.session.type = "none" /\ in.datasources = "ok"
         env == [investigation_keywords |-> TRUE,
                 prometheus_datasource_uid |-> IF found THEN "prometheus" ELSE "",
                 loki_datasource_uid |-> IF found THEN "loki" ELSE "",
                 available_metrics |-> found /\ in.prometheus = "ok",
                 loki_labels |-> found /\ in.loki = "ok"]
         detail == IF in.session.type = "ExceptionGroup"
                   THEN _flatten_exception_group(in.session)
                   ELSE <<in.session.type>>
     IN stage' = IF ~in.grafana_tool
                 THEN [stage EXCEPT !.pc = "returned",
                                    !.output = [environment |-> EnvironmentContext,
                                                warning |-> <<>>]]
                 ELSE [stage EXCEPT !.pc = "returned",
                                    !.output = [environment |-> env,
                                                warning |-> IF in.session.type = "none"
                                                            THEN <<>> ELSE detail]]
  /\ UNCHANGED <<registry, orch, engineVars, refreshVars, call, vq>>

\* ---------------------------------------------------------------- one gathering sub-loop

SubLoops == {"investigate_metrics", "investigate_logs"}

\* the number of steps the executor runs in one ainvoke: the config that
\* build_runnable_config makes, and wrapped() passes on, sets no
\* recursion_limit, and _build_graph compiles with none, so the executor's
\* default applies. A step runs one node of the sub-graph
recursion_limit == 25

\* MetricsAgent._reason / LogsAgent._reason and the conditional edge after it:
\* with no SystemMessage of the agent in the state's messages the service is
\* called with setup_messages, else with the state's messages; only the
\* response is written to the state. Without a plan a plain AIMessage is
\* returned and the service is not called
SubReason ==
  /\ stage.node \in SubLoops
  /\ stage.pc = "reason"
  /\ stage.output.step < recursion_limit
  /\ \E tool_calls \in BOOLEAN :
       LET messages == stage.output.messages
           setup_messages == <<[by |-> "system", tool_calls |-> FALSE],
                               [by |-> "human", tool_calls |-> FALSE]>>
           first == ~\E i \in DOMAIN messages : messages[i].by = "system"
           response == [by |-> "reason", tool_calls |-> stage.input.plan /\ tool_calls]
           all == messages \o <<response>>
       IN stage' = [stage EXCEPT
                      !.pc = IF _should_use_tool(all) = "tool_call"
                             THEN "tools" ELSE "summarize",
                      !.output.messages = all,
                      !.output.step = @ + 1,
                      !.output.llm_input = IF ~stage.input.plan THEN @
                                           ELSE IF first THEN setup_messages
                                           ELSE messages]
  /\ UNCHANGED <<registry, orch, engineVars, refreshVars, call, vq>>

\* ToolNode(self.tools) and the edge tools -> reason: the result of the
\* requested operation is appended to the state's messages
SubTools ==
  /\ stage.node \in SubLoops
  /\ stage.pc = "tools"
  /\ stage.output.step < recursion_limit
  /\ stage' = [stage EXCEPT
                 !.pc = "reason",
                 !.output.messages = @ \o <<[by |-> "tools", tool_calls |-> FALSE]>>,
                 !.output.step = @ + 1]
  /\ UNCHANGED <<registry, orch, engineVars, refreshVars, call, vq>>

\* MetricsAgent._summarize / LogsAgent._summarize and the edge to END: the
\* service is called with the state's messages and the request for a summary,
\* and one result is appended
SubSummarize ==
  /\ stage.node \in SubLoops
  /\ stage.pc = "summarize"
  /\ stage.output.step < recursion_limit
  /\ LET messages == stage.output.messages
     IN stage' = [stage EXCEPT
                    !.pc = "end",
                    !.output.llm_input = messages \o <<[by |-> "human", tool_calls |-> FALSE]>>,
                    !.output.messages = messages \o <<[by |-> "summarize", tool_calls |-> FALSE]>>,
                    !.output.results = @ + 1,
                    !.output.step = @ + 1]
  /\ UNCHANGED <<registry, orch, engineVars, refreshVars, call, vq>>

\* the executor of the compiled sub-graph: with recursion_limit steps run and
\* a node still due, ainvoke raises GraphRecursionError; the node is not run
\* and the sub-graph returns no state
SubRecursionLimit ==
  /\ stage.node \in SubLoops
  /\ stage.pc \in {"reason", "tools", "summarize"}
  /\ stage.output.step >= recursion_limit
  /\ stage' = [stage EXCEPT !.pc = "raised"]
  /\ UNCHANGED <<registry, orch, engineVars, refreshVars, call, vq>>

\* ---------------------------------------------------------------- one background run

\* the investigation record after create_investigation, and the run's task
NoRun == [status |-> "running", error |-> "", rca_report |-> "none",
          task |-> "none", calls |-> 0, attempts |-> 0, exc |-> "none",
          expired |-> FALSE]

\* _run_alert_investigation / _run_user_query_investigation up to wait_for:
\* without an orchestrator the record is failed; otherwise, the health
\* refresh having returned, the workflow is compiled and its task created
RunStart ==
  /\ stage.node = "run_investigation"
  /\ stage.pc = "called"
  /\ stage' = IF ~stage.input.orchestrator
              THEN [stage EXCEPT !.pc = "finished",
                                 !.output = [NoRun EXCEPT !.status = "failed",
                                                          !.error = "not_initialized"]]
              ELSE [stage EXCEPT !.pc = "waiting",
                                 !.output = [NoRun EXCEPT !.task = "running"]]
  /\ UNCHANGED <<registry, orch, engineVars, refreshVars, call, vq>>

\* _run_alert_investigation / _run_user_query_investigation at
\* await _refresh_orchestrator_health(inv_id), which stands before the try
\* block: an exception of the refresh (a probe raising one that is not an
\* httpx.HTTPError, the rebuild raising) or the cancellation of the function
\* while it waits for the lock or a probe leaves the function; no except clause
\* is reached and the record is not touched
RefreshAbandoned ==
  /\ stage.node = "run_investigation"
  /\ stage.pc = "called"
  /\ stage.input.orchestrator
  /\ \E cause \in {"InvalidURL", "CancelledError"} :
       stage' = [stage EXCEPT !.pc = "abandoned",
                              !.output = [NoRun EXCEPT !.exc = cause]]
  /\ UNCHANGED <<registry, orch, engineVars, refreshVars, call, vq>>

\* a stage of the running task awaits self.llm.ainvoke, and self.llm is the
\* ChatOpenAI object that AppState.initialize built, with no retry wrapper
\* around it: the service answers, or its RateLimitError leaves ainvoke after
\* this one attempt and, no stage catching it, the task
TaskInvoke ==
  /\ stage.node = "run_investigation"
  /\ stage.output.task = "running"
  /\ stage.output.calls < MaxCalls
  /\ \E rate_limited \in BOOLEAN :
       stage' = IF rate_limited
                THEN [stage EXCEPT !.output.calls = @ + 1,
                                   !.output.attempts = 1,
                                   !.output.task = "raised",
                                   !.output.exc = "RateLimitError"]
                ELSE [stage EXCEPT !.output.calls = @ + 1, !.output.attempts = 1]
  /\ UNCHANGED <<registry, orch, engineVars, refreshVars, call, vq>>

\* compiled.ainvoke returns the final state, with or without a report, or
\* raises the exception of a stage
TaskEnds ==
  /\ stage.node = "run_investigation"
  /\ stage.output.task = "running"
  /\ \E result \in {"report", "none", "ValueError"} :
       stage' = IF result = "ValueError"
                THEN [stage EXCEPT !.output.task = "raised", !.output.exc = result]
                ELSE [stage EXCEPT !.output.task = "done", !.output.exc = result]
  /\ UNCHANGED <<registry, orch, engineVars, refreshVars, call, vq>>

\* resolve_time_range reaches interrupt() in the task of a free-text run. The
\* workflow is compiled with no checkpointer (compile() passes none) and the
\* service has no entry point that resumes a run: the top-level ainvoke ends
\* at the interrupt and returns the state reached so far, which has no report
TaskInterrupted ==
  /\ stage.node = "run_investigation"
  /\ stage.input.trigger_type = "user_query"
  /\ stage.output.task = "running"
  /\ stage' = [stage EXCEPT !.output.task = "suspended"]
  /\ UNCHANGED <<registry, orch, engineVars, refreshVars, call, vq>>

\* wait_for(shield(task)) returns the task's result: complete_investigation
\* with result.get("rca_report"); or raises the task's exception:
\* fail_investigation with the rate limit message or str(e)
RunFinishes ==
  /\ stage.node = "run_investigation"
  /\ stage.pc = "waiting"
  /\ stage.output.task \in {"done", "suspended", "raised"}
  /\ stage' = IF stage.output.task \in {"done", "suspended"}
              THEN [stage EXCEPT !.pc = "finished",
                                 !.output.status = "completed",
                                 !.output.rca_report = IF stage.output.task = "suspended"
                                                       THEN "none" ELSE stage.output.exc]
              ELSE [stage EXCEPT !.pc = "finished",
                                 !.output.status = "failed",
                                 !.output.error = IF stage.output.exc = "RateLimitError"
                                                  THEN "rate_limit"
                                                  ELSE stage.output.exc]
  /\ UNCHANGED <<registry, orch, engineVars, refreshVars, call, vq>>

\* wait_for raises TimeoutError while the task runs; the shield keeps the
\* task running
Timeout ==
  /\ stage.node = "run_investigation"
  /\ stage.pc = "waiting"
  /\ stage.output.task = "running"
  /\ stage' = [stage EXCEPT !.pc = "timed_out", !.output.expired = TRUE]
  /\ UNCHANGED <<registry, orch, engineVars, refreshVars, call, vq>>

\* except TimeoutError: task.cancel()
CancelTask ==
  /\ stage.node = "run_investigation"
  /\ stage.pc = "timed_out"
  /\ stage' = [stage EXCEPT !.pc = "cancel_requested",
                            !.output.task = IF stage.output.task = "running"
                                            THEN "cancelling" ELSE @]
  /\ UNCHANGED <<registry, orch, engineVars, refreshVars, call, vq>>

\* the task resumes with CancelledError thrown at its await and ends cancelled
TaskCancelled ==
  /\ stage.node = "run_investigation"
  /\ stage.output.task = "cancelling"
  /\ stage' = [stage EXCEPT !.output.task = "cancelled"]
  /\ UNCHANGED <<registry, orch, engineVars, refreshVars, call, vq>>

\* await task after the cancel request: CancelledError is caught, a result is
\* dropped, and fail_investigation stores the timeout message; another
\* exception of the task reaches the outer handlers
AwaitCancelled ==
  /\ stage.node = "run_investigation"
  /\ stage.pc = "cancel_requested"
  /\ stage.output.task \in {"cancelled", "done", "suspended", "raised"}
  /\ stage' = [stage EXCEPT
                 !.pc = "finished",
                 !.output.status = "failed",
                 !.output.error = IF stage.output.task = "raised"
                                  THEN (IF stage.output.exc = "RateLimitError"
                                        THEN "rate_limit" ELSE stage.output.exc)
                                  ELSE "timeout"]
  /\ UNCHANGED <<registry, orch, engineVars, refreshVars, call, vq>>

\* the background function itself is cancelled while it waits in wait_for:
\* except asyncio.CancelledError of the outer try stores the cancellation
\* message, and the shield keeps the task running. (Cancelled at await task
\* after the timeout, the inner except clause takes it for the task's own
\* cancellation: AwaitCancelled.)
RunCancelled ==
  /\ stage.node = "run_investigation"
  /\ stage.pc = "waiting"
  /\ stage' = [stage EXCEPT !.pc = "finished",
                            !.output.status = "failed",
                            !.output.error = "cancelled"]
  /\ UNCHANGED <<registry, orch, engineVars, refreshVars, call, vq>>

\* ---------------------------------------------------------------- the evaluation stage

\* _parse_evaluation_feedback: the feedback starts with the queries tried so
\* far; the JSON of the response fills the other fields with data.get, and
\* ValueError or JSONDecodeError leave the lines after the first as the
\* reasoning. data.get on a JSON value that is no object (a list, a string,
\* null) raises AttributeError, which the except clause does not name
_parse_evaluation_feedback(content, previous_queries) ==
  IF content.body = "not_object"
  THEN [raised |-> "AttributeError", feedback |-> <<>>]
  ELSE [raised |-> "none",
        feedback |-> <<[previous_queries_attempted |-> previous_queries,
                        structured |-> content.body = "object",
                        reasoning |-> IF content.body = "object" THEN "reasoning"
                                      ELSE IF content.body = "none" THEN ""
                                      ELSE content.body]>>]

\* _evaluate_results from the response on: the first line in upper case is
\* tested with startswith("SUFFICIENT"); the feedback is parsed and written
\* only for a response that is not complete. The first line is a sequence of
\* pieces of text and the rest of the response is given by what it holds: no
\* further line, plain text, a later mention of the token, text in a fence
\* that is no JSON, a JSON object, or a JSON value that is no object
EvaluateResultsNode ==
  /\ stage.node = "evaluate_results"
  /\ stage.pc = "called"
  /\ LET content == stage.input.content
         plan == stage.input.plan
         previous_queries == IF plan = <<>> THEN <<>>
                             ELSE plan[1].promql_queries \o plan[1].logql_queries
         first_line == [i \in DOMAIN content.first_line |->
                          IF content.first_line[i] = "sufficient" THEN "SUFFICIENT"
                          ELSE IF content.first_line[i] = "in" THEN "IN"
                          ELSE content.first_line[i]]
         is_complete == first_line # <<>> /\ first_line[1] = "SUFFICIENT"
         parsed == _parse_evaluation_feedback(content, previous_queries)
     IN stage' =
          IF is_complete
          THEN [stage EXCEPT !.pc = "returned",
                             !.output = [keys |-> {"messages", "investigation_complete"},
                                         investigation_complete |-> TRUE,
                                         evaluation_feedback |-> <<>>]]
          ELSE IF parsed.raised # "none"
          THEN [stage EXCEPT !.pc = "raised",
                             !.output = [keys |-> {}, investigation_complete |-> FALSE,
                                         evaluation_feedback |-> <<>>]]
          ELSE [stage EXCEPT !.pc = "returned",
                             !.output = [keys |-> {"messages", "investigation_complete",
                                                   "evaluation_feedback"},
                                         investigation_complete |-> FALSE,
                                         evaluation_feedback |-> parsed.feedback]]
  /\ UNCHANGED <<registry, orch, engineVars, refreshVars, call, vq>>

\* ---------------------------------------------------------------- one batch of queries

\* _validate_query_list called on one batch of one language
ValidateQueryList ==
  /\ stage.node = "validate_query_list"
  /\ stage.pc = "called"
  /\ stage' = [stage EXCEPT
                 !.pc = "returned",
                 !.output = _validate_query_list(stage.input.queries,
                                                 stage.input.query_type)]
  /\ UNCHANGED <<registry, orch, engineVars, refreshVars, call, vq>>

\* ---------------------------------------------------------------- the rate limit retry wrapper

\* RateLimitRetryWrapper.bind_tools: the bound service of the wrapped one, in
\* a new wrapper with this wrapper's settings
\* variant: the new wrapper is built with the default settings
bind_tools_Defaults(wrapper) ==
  [llm |-> "bound", max_attempts |-> 3, wait_min |-> 5, wait_max |-> 120]

bind_tools(wrapper) ==
  [llm |-> "bound", max_attempts |-> wrapper.max_attempts,
   wait_min |-> wrapper.wait_min, wait_max |-> wrapper.wait_max]

\* RateLimitRetryWrapper.ainvoke, one attempt of _invoke_with_retry: the
\* wrapped service answers, or raises; tenacity tries again after a
\* RateLimitError unless stop_after_attempt(max_attempts) says stop
\* (attempt_number >= max_attempts, asked after the attempt), and with
\* reraise=True lets the last exception out
_invoke_with_retry ==
  /\ stage.node = "ainvoke"
  /\ stage.pc = "calling"
  /\ \E outcome \in {"response", "RateLimitError", "ValueError"} :
       LET wrapper == stage.input.wrapper
           attempt_number == stage.output.attempt_number
           outcomes == Append(stage.output.outcomes, outcome)
       IN stage' =
            IF outcome = "response"
            THEN [stage EXCEPT !.pc = "returned", !.output.outcomes = outcomes]
            ELSE IF outcome = "RateLimitError" /\ ~(attempt_number >= wrapper.max_attempts)
            THEN [stage EXCEPT !.output.attempt_number = @ + 1,
                               !.output.outcomes = outcomes]
            ELSE [stage EXCEPT !.pc = "raised", !.output.outcomes = outcomes]
  /\ UNCHANGED <<registry, orch, engineVars, refreshVars, call, vq>>

\* ---------------------------------------------------------------- sessions of one tool object

\* BaseMCPTool.session_context in task t, async with
\* self.mcp_client.session(): the session of the block is opened, the task
\* waiting for the connection and the handshake. A session is named after
\* the task whose block opened it; 0 is no session
SessionContextOpen(t) ==
  /\ stage.node = "session_context"
  /\ stage.output.tasks[t].pc = "outside"
  /\ stage' = [stage EXCEPT !.output.tasks[t].pc = "opened",
                            !.output.open = @ \cup {t}]
  /\ UNCHANGED <<registry, orch, engineVars, refreshVars, call, vq>>

\* session_context up to the yield: the opened session is bound to the tool's
\* one _current_session attribute and the body of the block starts
SessionContextEnter(t) ==
  /\ stage.node = "session_context"
  /\ stage.output.tasks[t].pc = "opened"
  /\ stage' = [stage EXCEPT !.output.tasks[t].pc = "inside",
                            !.output._current_session = t]
  /\ UNCHANGED <<registry, orch, engineVars, refreshVars, call, vq>>

\* BaseMCPTool._call_tool by task t inside its block: the call goes to the
\* session bound to the tool at this moment, or with none bound to a session
\* of its own through mcp_client.call_tool; the session used and whether it
\* was still open are noted
_call_tool(t) ==
  /\ stage.node = "session_context"
  /\ stage.output.tasks[t].pc = "inside"
  /\ Len(stage.output.tasks[t].used) < MaxCalls
  /\ LET bound_session == stage.output._current_session
     IN stage' = [stage EXCEPT
                    !.output.tasks[t].used =
                       Append(@, [session |-> bound_session,
                                  open |-> bound_session = 0
                                           \/ bound_session \in stage.output.open])]
  /\ UNCHANGED <<registry, orch, engineVars, refreshVars, call, vq>>

\* session_context from the yield on, the body of task t's block ending
\* normally or by an error: the finally clause sets _current_session to None,
\* whichever session is bound; the session of the block is still open
SessionContextFinally(t) ==
  /\ stage.node = "session_context"
  /\ stage.output.tasks[t].pc = "inside"
  /\ \E error \in BOOLEAN :
       stage' = [stage EXCEPT !.output.tasks[t].pc = "leaving",
                              !.output.tasks[t].error = error,
                              !.output._current_session = 0]
  /\ UNCHANGED <<registry, orch, engineVars, refreshVars, call, vq>>

\* the end of async with self.mcp_client.session(): the task has waited for
\* the session of its block to close, and the block is left, the error of
\* the body going on to the caller
SessionContextExit(t) ==
  /\ stage.node = "session_context"
  /\ stage.output.tasks[t].pc = "leaving"
  /\ stage' = [stage EXCEPT
                 !.output.tasks[t].pc = IF stage.output.tasks[t].error
                                        THEN "raised" ELSE "left",
                 !.output.open = @ \ {t}]
  /\ UNCHANGED <<registry, orch, engineVars, refreshVars, call, vq>>

\* ---------------------------------------------------------------- stage reports

\* OrchestratorAgent._update_stage: with an investigation_id and a callback
\* the callback is called with the id, the stage name and the iteration; the
\* call is made in the stage's own frame with no try around it, so what the
\* callback raises leaves _update_stage
_update_stage(state, callback, stage_name) ==
  IF state.investigation_id # "" /\ callback # "none"
  THEN [raised |-> callback = "raises",
        reported |-> <<[inv_id |-> state.investigation_id, stage |-> stage_name,
                        iteration |-> state.iteration_count]>>]
  ELSE [raised |-> FALSE, reported |-> <<>>]

\* _wrap_with_stage.wrapped up to await subgraph.ainvoke: the stage is
\* reported, and what the callback raises leaves wrapped() before the
\* sub-graph is started
wrapped ==
  /\ stage.node = "wrapped"
  /\ stage.pc = "called"
  /\ LET update == _update_stage(stage.input.state, stage.input.callback,
                                 stage.input.stage_name)
     IN stage' = [stage EXCEPT
                    !.pc = IF update.raised THEN "raised" ELSE "invoking",
                    !.output = [reported |-> update.reported, result |-> <<>>,
                                exc |-> IF update.raised THEN "callback" ELSE "none"]]
  /\ UNCHANGED <<registry, orch, engineVars, refreshVars, call, vq>>

\* wrapped() from the return of await subgraph.ainvoke on: the sub-graph's
\* final state is returned filtered by output_keys, or the exception of the
\* sub-graph leaves wrapped()
wrappedReturns ==
  /\ stage.node = "wrapped"
  /\ stage.pc = "invoking"
  /\ LET stage_name == stage.input.stage_name
         result == SubResult(stage_name, [k \in StateKeys |-> k], <<"response">>, <<"result">>)
     IN stage' = IF stage.input.subgraph = "raises"
                 THEN [stage EXCEPT !.pc = "raised", !.output.exc = "subgraph"]
                 ELSE [stage EXCEPT
                         !.pc = "returned",
                         !.output.result = Filter(result, output_keys(stage_name))]
  /\ UNCHANGED <<registry, orch, engineVars, refreshVars, call, vq>>

\* one function of the service called on one input
InitStage ==
  /\ registry = [c \in Backends |-> TRUE]
  /\ orch = _rebuild_agents_and_graph(registry)
  /\ trigger \in {x \in Triggers : x.trigger_type = "alert" /\ ~x.has_max}
  /\ st = InitialState
  /\ active = {}
  /\ pending = <<>>
  /\ sub = [b \in Branches |-> IdleSub]
  /\ status = "idle"
  /\ runs = [n \in AllNodes |-> 0]
  /\ lock = 0
  /\ task = [i \in 1..NumInv |-> NoTask]
  /\ pass = [p \in 0..NumInv |-> 0]
  /\ compiled = [i \in 1..NumInv |-> {}]
  /\ check_results = [p \in 0..NumInv |-> NoResults]
  /\ call = NoCall
  /\ vq = NoValidation
  /\ \/ \E content \in UNION {[1..n -> ReportTokens] : n \in 0..MaxContentLen} :
          stage = [NoStage EXCEPT !.node = "generate_report", !.pc = "called",
                                  !.input = content]
     \/ \E starts_at \in Times, ends_at \in {None} \cup {<<t>> : t \in Times},
           time_range \in {None, <<TimeRange(1, 2)>>, <<TimeRange(2, 1)>>} :
          stage = [NoStage EXCEPT
                     !.node = "resolve_time_range", !.pc = "called",
                     !.input = [trigger_type |-> "alert",
                                alert |-> <<[starts_at |-> starts_at, ends_at |-> ends_at]>>,
                                user_query |-> None,
                                plan_time_range |-> time_range]]
     \/ \E time_range_start, time_range_end \in {None} \cup {<<t>> : t \in Times},
           time_range \in {None, <<TimeRange(1, 2)>>, <<TimeRange(2, 1)>>} :
          stage = [NoStage EXCEPT
                     !.node = "resolve_time_range", !.pc = "called",
                     !.input = [trigger_type |-> "user_query",
                                alert |-> None,
                                user_query |-> <<[time_range_start |-> time_range_start,
                                                  time_range_end |-> time_range_end]>>,
                                plan_time_range |-> time_range]]
     \/ \E grafana_tool \in BOOLEAN,
           session_exc \in {[type |-> "none", leaves |-> <<>>],
                        [type |-> "MCPConnectionError", leaves |-> <<>>],
                        [type |-> "ExceptionGroup", leaves |-> <<"ConnectError">>]},
           datasources \in {"ok", "raises", "tool_error", "malformed"},
           prometheus, loki \in {"ok", "raises", "tool_error"} :
          stage = [NoStage EXCEPT
                     !.node = "discover_environment", !.pc = "called",
                     !.input = [grafana_tool |-> grafana_tool, session |-> session_exc,
                                datasources |-> datasources,
                                prometheus |-> prometheus, loki |-> loki]]
     \/ \E node \in SubLoops, plan \in BOOLEAN :
          stage = [NoStage EXCEPT
                     !.node = node, !.pc = "reason",
                     !.input = [plan |-> plan],
                     !.output = [messages |-> <<[by |-> "parent", tool_calls |-> FALSE]>>,
                                 llm_input |-> <<>>, results |-> 0, step |-> 0]]
     \/ \E first_line \in UNION {[1..n -> {"SUFFICIENT", "sufficient", "IN", "in", " ", "text"}] :
                                    n \in 0..2},
           body \in {"none", "text", "SUFFICIENT", "malformed", "object", "not_object"},
           plan \in {<<>>} \cup {<<p>> : p \in [promql_queries : {<<>>, <<"up">>},
                                                logql_queries : {<<>>, <<"{job=\"a\"}">>}]} :
          stage = [NoStage EXCEPT
                     !.node = "evaluate_results", !.pc = "called",
                     !.input = [content |-> [first_line |-> first_line, body |-> body],
                                plan |-> plan]]
     \/ \E stage_name \in {"investigate_metrics", "generate_rca"},
           investigation_id \in {"", "inv"}, iteration_count \in 0..MaxIterBound,
           callback \in {"none", "records", "raises"},
           subgraph \in {"returns", "raises"} :
          stage = [NoStage EXCEPT
                     !.node = "wrapped", !.pc = "called",
                     !.input = [state |-> [investigation_id |-> investigation_id,
                                           iteration_count |-> iteration_count],
                                stage_name |-> stage_name, callback |-> callback,
                                subgraph |-> subgraph]]
     \/ \E queries \in UNION {[1..n -> {<<"up">>, <<"up", "{">>, <<VAR>>, <<"{{", DQ, "}}">>,
                                          <<SQ>>, <<"{", DQ, "}">>}] : n \in 0..MaxBatch},
           query_type \in {"promql", "logql"} :
          stage = [NoStage EXCEPT
                     !.node = "validate_query_list", !.pc = "called",
                     !.input = [queries |-> queries, query_type |-> query_type]]
     \/ \E max_attempts \in 0..MaxAttemptsBound, tools \in BOOLEAN :
          LET wrapper == [llm |-> "llm", max_attempts |-> max_attempts,
                          wait_min |-> 5, wait_max |-> 120]
          IN stage = [NoStage EXCEPT
                        !.node = "ainvoke", !.pc = "calling",
                        !.input = [max_attempts |-> max_attempts,
                                   wrapper |-> IF tools THEN bind_tools(wrapper)
                                               ELSE wrapper],
                        !.output = [attempt_number |-> 1, outcomes |-> <<>>]]
     \/ stage = [NoStage EXCEPT
                   !.node = "session_context", !.pc = "called",
                   !.output = [_current_session |-> 0, open |-> {},
                               tasks |-> [t \in 1..NumInv |->
                                            [pc |-> "outside", used |-> <<>>,
                                             error |-> FALSE]]]]
     \/ \E trigger_type \in {"alert", "user_query"}, orchestrator \in BOOLEAN :
          stage = [NoStage EXCEPT
                     !.node = "run_investigation", !.pc = "called",
                     !.input = [trigger_type |-> trigger_type,
                                orchestrator |-> orchestrator],
                     !.output = NoRun]

NextStage ==
  \/ GenerateReport
  \/ ResolveTimeRangeNode
  \/ ResolveTimeRangeResume
  \/ DiscoverEnvironmentNode
  \/ SubReason
  \/ SubTools
  \/ SubSummarize
  \/ SubRecursionLimit
  \/ RunStart
  \/ RefreshAbandoned
  \/ TaskInvoke
  \/ TaskEnds
  \/ RunFinishes
  \/ Timeout
  \/ CancelTask
  \/ TaskCancelled
  \/ AwaitCancelled
  \/ EvaluateResultsNode
  \/ TaskInterrupted
  \/ wrapped
  \/ wrappedReturns
  \/ ValidateQueryList
  \/ _invoke_with_retry
  \/ RunCancelled
  \/ \E t \in 1..NumInv : SessionContextOpen(t)
  \/ \E t \in 1..NumInv : SessionContextEnter(t)
  \/ \E t \in 1..NumInv : _call_tool(t)
  \/ \E t \in 1..NumInv : SessionContextFinally(t)
  \/ \E t \in 1..NumInv : SessionContextExit(t)

SpecStage == InitStage /\ [][NextStage]_vars

\* a sub-loop that can take a step takes one: the event loop runs a ready
\* coroutine
SpecStageFair ==
  SpecStage /\ WF_vars(SubReason \/ SubTools \/ SubSummarize \/ SubRecursionLimit)

\* ---------------------------------------------------------------- properties

IsPrefix(a, b) == Len(a) <= Len(b) /\ SubSeq(b, 1, Len(a)) = a

Built(b) == b \in orch.graph.nodes

\* no superstep is half-way: every update returned so far has been applied
Quiet == pending = <<>>

\* C1 as stated: at every point 0 <= iteration_count <= max_iterations, for
\* every max_iterations the run is given.
C1_IterationWithinMax ==
  0 <= st.iteration_count /\ st.iteration_count <= max_iterations(trigger)

\* C1 amended: iteration_count is the number of completed PlanInvestigation
\* executions (it starts at 0 and only PlanInvestigation changes it, by +1), and
\* 0 <= iteration_count <= max(1, max_iterations): the first plan is made before
\* the ceiling is looked at, so the bound max_iterations needs max_iterations >= 1.
C1_IterationBound ==
  /\ 0 <= st.iteration_count
  /\ st.iteration_count <= Max(1, max_iterations(trigger))
  /\ st.iteration_count = runs["plan_investigation"]

C1_Witness ==
  /\ max_iterations(trigger) >= 2
  /\ st.iteration_count = max_iterations(trigger)
  /\ ~st.investigation_complete
  /\ active = {"generate_rca"}

\* C2: the step that completes EvaluateResults schedules exactly one stage:
\* GenerateRCA if the evaluation reported sufficiency or iteration_count >=
\* max_iterations, PlanInvestigation otherwise.
C2_LoopGuard ==
  [][(Running("evaluate_results") /\ runs'["evaluate_results"] = runs["evaluate_results"] + 1
        /\ Quiet')
       => active' = {IF st'.investigation_complete
                        \/ st'.iteration_count >= max_iterations(trigger)
                     THEN "generate_rca" ELSE "plan_investigation"}]_vars

C2_Witness ==
  /\ active = {"generate_rca"}
  /\ runs["evaluate_results"] = 2
  /\ st.investigation_complete
  /\ st.iteration_count < max_iterations(trigger)

\* C3: EvaluateResults is scheduled only when every built gathering branch has
\* completed its execution of the current round and no branch is running, and
\* it runs once per round.
C3_Barrier ==
  /\ "evaluate_results" \in active =>
       /\ active = {"evaluate_results"}
       /\ \A b \in Branches : Built(b) => (runs[b] = st.iteration_count /\ sub[b].pc = "idle")
       /\ runs["evaluate_results"] = st.iteration_count - 1
  /\ runs["evaluate_results"] <= st.iteration_count

C3_Witness ==
  /\ "evaluate_results" \in active
  /\ Built("investigate_metrics") /\ Built("investigate_logs")
  /\ st.iteration_count = 2
  /\ runs["investigate_metrics"] = 2 /\ runs["investigate_logs"] = 2

\* the stage sets that may follow a stage set in a run
StageOrder(a, b) ==
  \/ a = {"discover_environment"} /\ b = {"analyze_input"}
  \/ a = {"analyze_input"} /\ b = {"plan_investigation"}
  \/ a = {"plan_investigation"} /\ b \in {{"validate_queries"}, {}}
  \/ a = {"validate_queries"} /\ b \in {{"resolve_time_range"}, {}}
  \/ a = {"resolve_time_range"}
       /\ b \in {IF BranchSet(orch.graph) = {} THEN {"evaluate_results"}
                 ELSE BranchSet(orch.graph), {}}
  \/ a # {} /\ a = BranchSet(orch.graph) /\ b = {"evaluate_results"}
  \/ a = {"evaluate_results"} /\ b \in {{"plan_investigation"}, {"generate_rca"}, {}}
  \/ a = {"generate_rca"} /\ b = {}

\* C4: the stages run in the order DiscoverEnvironment, AnalyzeInput, rounds of
\* (PlanInvestigation, ValidateQueries, ResolveTimeRange, gathering branches,
\* EvaluateResults), GenerateRCA, end; a stage starts only when the previous one
\* has completed; DiscoverEnvironment and AnalyzeInput run once, and the
\* environment never changes after DiscoverEnvironment.
C4_StageOrder ==
  [][/\ (active' # active) => (Quiet' /\ StageOrder(active, active'))
     /\ (active' # active /\ active' # {}) =>
          \A n \in active : \/ runs'[n] = runs[n] + 1
                            \/ n \in {pending[i].node : i \in DOMAIN pending}
     /\ runs'["discover_environment"] <= 1
     /\ runs'["analyze_input"] <= 1
     /\ runs["discover_environment"] = 1 => st'.environment = st.environment
     /\ (st.iteration_count >= 1 /\ st'.iteration_count # st.iteration_count)
          => runs["evaluate_results"] = st.iteration_count]_vars

C4_Witness ==
  /\ active = {"validate_queries"}
  /\ st.iteration_count = 2
  /\ runs["discover_environment"] = 1
  /\ runs["analyze_input"] = 1
  /\ st.environment = "discovered"

\* C5: after k completed executions of a gathering branch its result list holds
\* exactly k results.
C5_OneResultPerPass ==
  Quiet => \A b \in Branches : Len(st[ResultKey(b)]) = runs[b]

\* C6: every step leaves the old metrics_results and logs_results as a prefix
\* of the new ones.
C6_AppendOnly ==
  [][/\ IsPrefix(st.metrics_results, st'.metrics_results)
     /\ IsPrefix(st.logs_results, st'.logs_results)]_vars

C6_Witness ==
  /\ runs["investigate_metrics"] = 2
  /\ runs["investigate_logs"] = 2
  /\ Quiet
  /\ Len(st.metrics_results) >= 2
  /\ Len(st.logs_results) >= 2

\* the update node n returned in the current superstep
UpdatesOf(pend, n) == {pend[i].upd : i \in {j \in DOMAIN pend : pend[j].node = n}}

\* C7: a gathering branch returns only its own result list and messages; while
\* the branches run, plan, iteration counter and environment do not change; and
\* the lists after the round are determined by the state before it, whichever
\* branch returned first.
C7_BranchFrame ==
  [][(active # {} /\ active \subseteq Branches) =>
       /\ st'.plan = st.plan
       /\ st'.iteration_count = st.iteration_count
       /\ st'.environment = st.environment
       /\ status' = "running"
       /\ \A b \in Branches : \A u \in UpdatesOf(pending', b) :
            DOMAIN u \subseteq {"messages", ResultKey(b)}
       /\ \A b \in Branches :
            st'[ResultKey(b)] =
              IF active' # active /\ b \in active
              THEN st[ResultKey(b)] \o (st[ResultKey(b)] \o <<Result(b, st)>>)
              ELSE st[ResultKey(b)]]_vars

C7_Witness ==
  /\ active = Branches
  /\ Len(pending) = 1
  /\ pending[1].node = "investigate_logs"
  /\ sub["investigate_metrics"].rounds = 1

AllDown(reg) == \A c \in Backends : ~reg[c]

\* C8 as stated: metrics and logs backends unhealthy at build time imply a
\* workflow without gathering branches and with the direct edge.
C8_NoBranchesWhenBothDown ==
  (~registry["prometheus"] /\ ~registry["loki"]) =>
    /\ BranchSet(orch.graph) = {}
    /\ <<"resolve_time_range", "evaluate_results">> \in orch.graph.edges

\* C8 amended: when the metrics, logs and dashboard/meta backends are all
\* unhealthy at build time, the workflow has no gathering branch and has the
\* direct edge ResolveTimeRange -> EvaluateResults; EvaluateResults follows
\* ResolveTimeRange and yields a verdict or feedback from empty result lists.
C8_NoBranchesWhenAllDown ==
  AllDown(registry) =>
    /\ BranchSet(orch.graph) = {}
    /\ <<"resolve_time_range", "evaluate_results">> \in orch.graph.edges
    /\ st.metrics_results = <<>> /\ st.logs_results = <<>>
    /\ (status = "running" /\ runs["resolve_time_range"] > runs["evaluate_results"])
         => active = {"evaluate_results"}
    /\ status = "done" => runs["evaluate_results"] >= 1
    /\ runs["evaluate_results"] >= 1
         => (st.investigation_complete \/ st.evaluation_feedback >= 1)

C8_Witness ==
  /\ AllDown(registry)
  /\ runs["evaluate_results"] = 1
  /\ st.evaluation_feedback = 1
  /\ active = {"plan_investigation"}

\* C9: InvestigateMetrics is built iff the metrics or the dashboard/meta backend
\* was healthy at build time, InvestigateLogs iff the logs or the dashboard/meta
\* backend was; the direct edge exists iff neither branch exists; and only
\* built branches ever run.
C9_BranchesFromFlags ==
  /\ Built("investigate_metrics") <=> (registry["prometheus"] \/ registry["grafana"])
  /\ Built("investigate_logs") <=> (registry["loki"] \/ registry["grafana"])
  /\ (<<"resolve_time_range", "evaluate_results">> \in orch.graph.edges)
       <=> (BranchSet(orch.graph) = {})
  /\ \A b \in Branches :
       /\ (<<"resolve_time_range", b>> \in orch.graph.edges) <=> Built(b)
       /\ (<<b, "evaluate_results">> \in orch.graph.edges) <=> Built(b)
       /\ (b \in active \/ runs[b] > 0) => Built(b)

C9_Witness ==
  /\ registry["prometheus"] /\ ~registry["loki"] /\ ~registry["grafana"]
  /\ runs["investigate_metrics"] = 1
  /\ runs["investigate_logs"] = 0
  /\ active = {"evaluate_results"}

\* C10: the workflow an investigation compiles after its health refresh has the
\* branch set of the flags that refresh produced, or of the flags a later
\* refresh produced.
C10_CompileAfterRefresh ==
  \A i \in Inv : task[i].pc \in {"running", "finished"} => compiled[i] \in task[i].fresh

C10_Witness ==
  \E i \in Inv :
    /\ task[i].pc = "running"
    /\ compiled[i] = {"investigate_logs"}
    /\ \E j \in Inv : j # i /\ task[j].pc = "running" /\ compiled[j] = Branches

\* C11: a run that has started on a compiled workflow keeps the snapshot the
\* workflow was built from, whatever refresh_health does later; in particular
\* DiscoverEnvironment uses the dashboard/meta connection of that snapshot.
C11_RunKeepsSnapshot ==
  \A i \in Inv : task[i].env # "none" => ((task[i].env = "discovered") <=> task[i].tool)

\* the health_check passes that are between their first and their last probe
PassesInProgress == {p \in 0..NumInv : pass[p] # 0}

\* C12: at no time are two health_check passes over the registry in progress,
\* whether the pre-investigation refresh or the /health endpoint started them.
C12_PassesExclusive ==
  Cardinality(PassesInProgress) <= 1

\* C13: a transport failure is retried, with or without a bound session, up
\* to 3 attempts in all, and the error that reaches the caller is the typed
\* one raised after the third consecutive failure.
C13_RetriedWithOrWithoutSession ==
  call.pc = "raised" /\ call.exc # "McpError" =>
    /\ call.attempt_number = StopAfterAttempt
    /\ call.exc \in {"MCPConnectionError", "MCPTimeoutError"}

\* C14: a response the server marks as an error is returned as the tagged
\* result {"error": text of the text parts}, without "content", nothing is
\* raised, and no attempt follows it.
C14_TaggedErrorNoRetry ==
  [][(call.pc = "calling" /\ call'.pc = "returned") =>
       /\ call'.attempt_number = call.attempt_number
       /\ call'.sleeps = call.sleeps
       /\ call'.exc = call.exc
       /\ call'.response \in Responses
       /\ call'.response.isError =>
            call'.result = [error |-> error_text(call'.response.content)]
       /\ call'.response.isError <=> DOMAIN call'.result = {"error"}
       /\ ~call'.response.isError <=> DOMAIN call'.result = {"content"}
     /\ (call.pc = "returned" => call' = call)]_vars

C14_Witness ==
  /\ call.pc = "returned"
  /\ call.attempt_number = 1
  /\ call.response.isError
  /\ Len(call.response.content) = 2
  /\ call.result = [error |-> "ab"]

\* C15: health_check never raises, whatever the failure of a probe: every pass
\* goes on to probe the remaining connections and returns a map with one entry
\* per connection, equal to the connection's flag at the end of the pass.
C15_HealthCheckNeverRaises ==
  \A p \in 0..NumInv :
    /\ ~check_results[p].raised
    /\ pass[p] = Len(AllConnections) + 1 =>
         /\ DOMAIN check_results[p].results = Backends
         /\ \A c \in Backends : check_results[p].results[c] = registry[c]

\* C16: in one execution of validate_queries at most 3 regenerations are
\* requested, each right after a pass over the same candidates that found no
\* valid query of either language, and a pass that finds a valid query
\* returns at once with exactly its valid queries stored in the plan.
C16_BoundedRegeneration ==
  [][LET promql == _validate_query_list(vq.candidate_promql, "promql").valid
         logql == _validate_query_list(vq.candidate_logql, "logql").valid
     IN /\ vq'.requests <= 3
        /\ vq'.requests # vq.requests =>
             /\ vq'.requests = vq.requests + 1
             /\ vq.pc = "regenerating"
             /\ promql = <<>> /\ logql = <<>>
        /\ vq'.pc = "regenerating" =>
             /\ vq.pc = "validating"
             /\ vq'.candidate_promql = vq.candidate_promql
             /\ vq'.candidate_logql = vq.candidate_logql
             /\ promql = <<>> /\ logql = <<>>
        /\ (vq.pc = "validating" /\ (promql # <<>> \/ logql # <<>>)) =>
             /\ vq'.pc = "returned"
             /\ vq'.requests = vq.requests
             /\ vq'.plan = [promql_queries |-> promql, logql_queries |-> logql]
        /\ vq.pc = "returned" => vq' = vq]_vars

C16_Witness ==
  /\ vq.pc = "returned"
  /\ vq.requests = 3
  /\ vq.candidate_promql = <<<<"up", "AND", "up">>, <<"up">>>>
  /\ vq.plan = [promql_queries |-> <<<<"up">>>>, logql_queries |-> <<>>]

\* C17 as stated: validate_queries never raises, whatever the completion
\* service answers to the regeneration requests, and when it ends without a
\* valid query both query lists of the plan are empty.
C17_NeverFails ==
  /\ vq.pc # "raised"
  /\ (vq.pc = "returned" /\ vq.requests = 3) =>
       \/ vq.plan = [promql_queries |-> <<>>, logql_queries |-> <<>>]
       \/ _validate_query_list(vq.candidate_promql, "promql").valid # <<>>
       \/ _validate_query_list(vq.candidate_logql, "logql").valid # <<>>

\* C17 amended: as long as every answer to a regeneration request parses into
\* a plan, the stage does not raise; the pass after the third regeneration
\* that still finds no valid query returns the plan with both query lists
\* empty, together with the last answer.  The stage raises only out of a
\* regeneration request, when the answer cannot be parsed.
C17_EmptyListsAtCeiling ==
  [][/\ (/\ vq.pc = "validating"
         /\ vq.attempt = 3
         /\ _validate_query_list(vq.candidate_promql, "promql").valid = <<>>
         /\ _validate_query_list(vq.candidate_logql, "logql").valid = <<>>) =>
          /\ vq'.pc = "returned"
          /\ vq'.plan = [promql_queries |-> <<>>, logql_queries |-> <<>>]
          /\ vq'.result = {"plan", "messages"}
     /\ vq.pc = "validating" => vq'.pc \in {"returned", "regenerating"}
     /\ vq'.pc = "raised" => vq.pc = "regenerating" /\ vq.attempt < 3]_vars

C17_Witness ==
  /\ vq.pc = "returned"
  /\ vq.attempt = 3
  /\ vq.requests = 3
  /\ vq.candidate_promql = <<<<"up", "AND", "up">>>>
  /\ vq.candidate_logql = <<<<"up">>>>
  /\ vq.plan = [promql_queries |-> <<>>, logql_queries |-> <<>>]
  /\ vq.result = {"plan", "messages"}

\* C18: when validate_queries has returned, every query in the plan's two
\* lists is one the validator of its language accepts and holds no
\* template-variable placeholder; a candidate whose correction does not
\* validate is not stored in any form and is reported, as itself, with the
\* errors of its own validation, and a correction is stored only if it
\* validates.
C18_StoredQueriesValid ==
  \A query_type \in {"promql", "logql"} :
    LET candidates == IF query_type = "promql" THEN vq.candidate_promql
                      ELSE vq.candidate_logql
        stored == IF query_type = "promql" THEN vq.plan.promql_queries
                  ELSE vq.plan.logql_queries
        checked == _validate_query_list(candidates, query_type)
    IN /\ vq.pc = "returned" =>
            \A i \in DOMAIN stored :
              /\ validate(stored[i], query_type).is_valid
              /\ ~Has(stored[i], VAR)
       /\ \A i \in DOMAIN candidates :
            LET sanitized == sanitize_query(candidates[i])
                result == validate(sanitized, query_type)
                reported == \E k \in DOMAIN checked.errors :
                              /\ checked.errors[k].query = candidates[i]
                              /\ checked.errors[k].errors = result.errors
                kept(q) == \E k \in DOMAIN checked.valid : checked.valid[k] = q
            IN IF Has(candidates[i], VAR) THEN ~reported /\ ~kept(sanitized)
               ELSE IF result.is_valid THEN kept(sanitized) /\ ~reported
               ELSE IF result.corrected_query = None THEN reported /\ ~kept(sanitized)
               ELSE IF validate(result.corrected_query, query_type).is_valid
               THEN kept(result.corrected_query) /\ ~reported
               ELSE reported /\ ~kept(result.corrected_query) /\ ~kept(sanitized)

C18_Witness ==
  /\ vq.pc = "returned"
  /\ vq.candidate_logql = <<<<SQ, "AND", SQ>>>>
  /\ vq.plan.logql_queries = <<<<"{", DQ, ",", DQ, "}">>>>
  /\ vq.plan.promql_queries = <<>>

\* C19 as stated: a query with a foreign fragment (AND, OR, a quoted time
\* comparison) is invalid for the validator, and the plan validate_queries
\* returns does not hold its auto-corrected form.
C19_NeverAutoCorrected ==
  \A query_type \in {"promql", "logql"} :
    LET candidates == IF query_type = "promql" THEN vq.candidate_promql
                      ELSE vq.candidate_logql
        stored == IF query_type = "promql" THEN vq.plan.promql_queries
                  ELSE vq.plan.logql_queries
    IN \A i \in DOMAIN candidates :
         LET result == validate(sanitize_query(candidates[i]), query_type)
         IN (Has(candidates[i], "AND") \/ Has(candidates[i], "OR")
               \/ Has(candidates[i], TIME)) =>
              /\ ~result.is_valid
              /\ (vq.pc = "returned" /\ result.corrected_query # None) =>
                   \A k \in DOMAIN stored : stored[k] # result.corrected_query

\* C19 amended: a query with a foreign fragment is invalid for the validator,
\* also when a correction is attempted, and no query of the returned plan
\* holds a foreign fragment; such a query is stored in no other form than
\* its correction, and only if the correction validates.
C19_ForeignRejected ==
  \A query_type \in {"promql", "logql"} :
    LET candidates == IF query_type = "promql" THEN vq.candidate_promql
                      ELSE vq.candidate_logql
        stored == IF query_type = "promql" THEN vq.plan.promql_queries
                  ELSE vq.plan.logql_queries
        foreign(q) == Has(q, "AND") \/ Has(q, "OR") \/ Has(q, TIME)
    IN /\ \A i \in DOMAIN candidates :
            LET result == validate(sanitize_query(candidates[i]), query_type)
            IN foreign(candidates[i]) =>
                 /\ ~result.is_valid
                 /\ \E k \in DOMAIN result.errors :
                      result.errors[k] \in {"sql:AND", "sql:OR", "sql:>="}
                 /\ (vq.pc = "returned" /\ Len(candidates) = 1 /\ stored # <<>>) =>
                      /\ stored = <<result.corrected_query>>
                      /\ validate(result.corrected_query, query_type).is_valid
       /\ vq.pc = "returned" => \A k \in DOMAIN stored : ~foreign(stored[k])

C19_Witness ==
  /\ vq.pc = "returned"
  /\ vq.candidate_logql = <<<<SQ, "AND", TIME>>>>
  /\ vq.plan.logql_queries = <<<<"{", DQ, "}">>>>
  /\ validate_logql(<<SQ, "AND", TIME>>).errors
       = <<"sql:AND", "sql:>=", "no_selector">>

\* C20: an execution of plan_investigation ends in one of two ways: the plan
\* of the completion service is stored and the iteration counter goes up by
\* one, or (the output cannot be parsed) the run fails at that stage with the
\* state as it was: no plan is substituted, the counter is not incremented,
\* and no stage executes after the failure.
C20_PlanParseFailureIsFatal ==
  [][/\ (Running("plan_investigation")
          /\ (status' # status \/ runs' # runs \/ st' # st)) =>
          \/ /\ status' = "error"
             /\ active' = {}
             /\ st' = st
             /\ runs' = runs
          \/ /\ status' = "running"
             /\ runs' = [runs EXCEPT !["plan_investigation"] = @ + 1]
             /\ st'.iteration_count = st.iteration_count + 1
             /\ st'.plan.ver = st'.iteration_count
             /\ st'.plan.queries = "raw"
     /\ status = "error" => (st' = st /\ runs' = runs /\ active' = {} /\ status' = status)]_vars

C20_Witness ==
  /\ status = "error"
  /\ active = {}
  /\ runs["plan_investigation"] = 1
  /\ runs["evaluate_results"] = 1
  /\ st.iteration_count = 1
  /\ st.plan.ver = 1

\* C21 as stated: when the report output of the completion service is not a
\* well-formed report object, generate_report raises and stores no report.
C21_MalformedReportRaises ==
  (stage.node = "generate_report" /\ stage.pc = "returned") =>
     stage.output.rca_report.root_causes = <<>>

\* C21 amended: when the report output holds no JSON object, or an object
\* around text that is not JSON, generate_report does not raise: it returns a report whose only
\* root cause is the output itself with confidence 0.5 and whose summary is
\* empty, next to the output as a message.
C21_FallbackReport ==
  [][(stage.node = "generate_report" /\ stage.pc = "called") =>
       LET content == stage.input
           object == \E i, j \in DOMAIN content :
                       /\ i < j /\ content[i] = "{" /\ content[j] = "}"
           fenced == \E i, j \in DOMAIN content :
                       /\ i < j /\ content[i] = "fence_json"
                       /\ content[j] \in {"fence", "fence_json"}
       IN /\ (~object /\ ~fenced) =>
               /\ stage'.pc = "returned"
               /\ stage'.output.messages = <<content>>
               /\ stage'.output.rca_report
                    = [root_causes |-> <<[description |-> content, confidence |-> 5]>>,
                       metrics_summary |-> ""]
          /\ (~fenced /\ \E i, k, j \in DOMAIN content :
                            /\ i < k /\ k < j /\ content[i] = "{" /\ content[j] = "}"
                            /\ content[k] \in {"text", "{", "}", "fence"}) =>
               /\ stage'.pc = "returned"
               /\ stage'.output.rca_report.root_causes
                    = <<[description |-> content, confidence |-> 5]>>
          /\ stage'.pc = "returned" =>
               \/ stage'.output.rca_report.root_causes = <<>>
               \/ stage'.output.rca_report.root_causes[1].description = content]_vars

C21_Witness ==
  /\ stage.node = "generate_report"
  /\ stage.pc = "returned"
  /\ stage.input = <<"text", "{", "text">>
  /\ stage.output.rca_report.root_causes
       = <<[description |-> <<"text", "{", "text">>, confidence |-> 5]>>

\* C22: a plan without a time range gets it from the trigger with no human
\* input: an alert that started at T gives [T - 30 min, ends_at], or
\* [T - 30 min, T + 30 min] without ends_at; a free-text trigger with the
\* parsed start T gives [T, parsed end], or [T, T + 1 h] without a parsed end.
C22_DerivedFromTrigger ==
  (stage.node = "resolve_time_range" /\ stage.input.plan_time_range = None) =>
     LET alert == stage.input.alert
         user_query == stage.input.user_query
     IN /\ stage.input.trigger_type = "alert" =>
             /\ stage.pc \in {"called", "returned"}
             /\ stage.pc = "returned" =>
                  /\ stage.output[1].start = alert[1].starts_at - 1
                  /\ alert[1].ends_at = None => stage.output[1].end = alert[1].starts_at + 1
                  /\ alert[1].ends_at # None => stage.output[1].end = alert[1].ends_at[1]
        /\ (stage.input.trigger_type = "user_query"
              /\ user_query[1].time_range_start # None) =>
             /\ stage.pc \in {"called", "returned"}
             /\ stage.pc = "returned" =>
                  /\ stage.output[1].start = user_query[1].time_range_start[1]
                  /\ user_query[1].time_range_end = None =>
                       stage.output[1].end = user_query[1].time_range_start[1] + 2
                  /\ user_query[1].time_range_end # None =>
                       stage.output[1].end = user_query[1].time_range_end[1]

C22_Witness ==
  /\ stage.node = "resolve_time_range"
  /\ stage.pc = "returned"
  /\ stage.input.trigger_type = "alert"
  /\ stage.input.plan_time_range = None
  /\ stage.input.alert = <<[starts_at |-> 2, ends_at |-> None]>>
  /\ stage.output = <<[start |-> 1, end |-> 3]>>

\* C23: once the human reply has arrived, resolve_time_range completes with a
\* time range in the plan whatever the conversion of the reply looks like; it
\* never fails.
C23_ReplyAlwaysResolved ==
  stage.node = "resolve_time_range" =>
     /\ stage.pc # "raised"
     /\ stage.pc = "returned" => stage.output # None

\* C24: every time range that resolve_time_range leaves in the plan has its
\* start before its end, whether it came with the plan, from the alert, from
\* the parsed bounds of the user query, from the reply or from the fallback.
C24_StartBeforeEnd ==
  (stage.node = "resolve_time_range" /\ stage.pc = "returned") =>
     stage.output[1].start < stage.output[1].end

\* C25: when the timeout expires while the task runs, the task is cancelled
\* and calls the completion service no more, the record is marked failed with
\* the timeout message, whatever way the task ends, no report is stored, and
\* a failed record is never marked completed.
C25_TimeoutFails ==
  [][stage.node = "run_investigation" =>
       LET record == stage.output
           after == stage'.output
       IN /\ after.expired => (after.status # "completed" /\ after.rca_report = "none")
          /\ (after.expired /\ stage'.pc = "finished") =>
               /\ after.status = "failed"
               /\ after.task \notin {"running", "cancelling"}
               /\ after.error = "timeout"
          /\ (record.expired /\ stage.pc \in {"cancel_requested", "finished"}) =>
               /\ after.calls = record.calls
               /\ record.task = "running" => after.task = "running"
          /\ record.status = "failed" => after.status = "failed"]_vars

\* C27: an investigation is marked failed with the rate limit message only
\* after the call of the completion service that was refused has been tried
\* more than once.
C27_RateLimitRetried ==
  (stage.node = "run_investigation" /\ stage.output.error = "rate_limit") =>
     stage.output.attempts > 1

\* C26: discover_environment never raises: with the dashboard backend
\* unavailable it returns the empty environment, and whatever fails in the
\* session or in a discovery call (transport error, error result, malformed
\* payload) it returns an environment that holds what was found, nothing from
\* a call that failed.
C26_DiscoveryNeverAborts ==
  (stage.node = "discover_environment" /\ stage.pc # "called") =>
     LET in == stage.input
         env == stage.output.environment
     IN /\ stage.pc = "returned"
        /\ ~in.grafana_tool =>
             env = [investigation_keywords |-> FALSE, prometheus_datasource_uid |-> "",
                    loki_datasource_uid |-> "", available_metrics |-> FALSE,
                    loki_labels |-> FALSE]
        /\ (in.grafana_tool /\ (in.session.type # "none" \/ in.datasources # "ok")) =>
             /\ env.prometheus_datasource_uid = "" /\ env.loki_datasource_uid = ""
             /\ ~env.available_metrics /\ ~env.loki_labels
        /\ in.prometheus # "ok" => ~env.available_metrics
        /\ in.loki # "ok" => ~env.loki_labels

C26_Witness ==
  /\ stage.node = "discover_environment"
  /\ stage.pc = "returned"
  /\ stage.input.grafana_tool
  /\ stage.input.session.type = "ExceptionGroup"
  /\ stage.output.warning = <<"ConnectError">>
  /\ stage.output.environment.investigation_keywords
  /\ stage.output.environment.prometheus_datasource_uid = ""

\* C28: after a requested operation has been executed in a sub-loop, the
\* next reasoning call of the completion service has the operation's result
\* among its input messages.
C28_ResultFedBack ==
  (/\ stage.node \in SubLoops
   /\ stage.pc \in {"tools", "summarize"}
   /\ Len(stage.output.messages) >= 2
   /\ stage.output.messages[Len(stage.output.messages) - 1].by = "tools") =>
     \E i \in DOMAIN stage.output.llm_input : stage.output.llm_input[i].by = "tools"

\* C29: whatever the completion service answers, a sub-loop comes, after a
\* bounded number of reason and tool steps, to its summarize step, which
\* appends its one result, and ends.
C29_SubLoopEnds ==
  (stage.node \in SubLoops) ~> (stage.pc = "end" /\ stage.output.results = 1)

\* C30 as stated: feedback is held only between an insufficient evaluation
\* and the PlanInvestigation after it; later, and at the end of a run with a
\* sufficient verdict, the investigation holds none.
C30_FeedbackDiscarded ==
  st.evaluation_feedback # 0 =>
     (st.evaluation_feedback = st.iteration_count /\ ~st.investigation_complete)

\* C30 amended: feedback is written only by an EvaluateResults with an
\* insufficient verdict, every PlanInvestigation after the first reads the
\* feedback of the evaluation just before it, and nothing clears it: it stays
\* in the state, through PlanInvestigation and through a sufficient verdict,
\* until the next insufficient evaluation replaces it.
C30_FeedbackKeptUntilReplaced ==
  [][/\ st'.evaluation_feedback # st.evaluation_feedback =>
          /\ "evaluate_results" \in active
          /\ ~st'.investigation_complete
          /\ st'.evaluation_feedback = st.iteration_count
     /\ "plan_investigation" \in active' =>
          st'.evaluation_feedback = st'.iteration_count
     /\ (st.evaluation_feedback # 0 /\ status' # "error") =>
          st'.evaluation_feedback # 0]_vars

C30_Witness ==
  /\ status = "done"
  /\ st.investigation_complete
  /\ st.iteration_count = 2
  /\ st.evaluation_feedback = 1
  /\ st.rca_report

\* C31: the evaluation sets investigation_complete exactly for a response
\* whose first line begins with the sufficiency token (in any letter case, as
\* the stage reads it); every other response makes the stage return with
\* investigation_complete false and a feedback whose previously attempted
\* queries are the plan's PromQL queries followed by its LogQL queries.
C31_VerdictAndFeedback ==
  (stage.node = "evaluate_results" /\ stage.pc # "called") =>
    LET first_line == stage.input.content.first_line
        plan == stage.input.plan
        begins == first_line # <<>> /\ first_line[1] \in {"SUFFICIENT", "sufficient"}
    IN /\ stage.pc = "returned"
       /\ stage.output.investigation_complete = begins
       /\ ~begins =>
            /\ stage.output.evaluation_feedback # <<>>
            /\ stage.output.evaluation_feedback[1].previous_queries_attempted
                 = (IF plan = <<>> THEN <<>>
                    ELSE plan[1].promql_queries \o plan[1].logql_queries)

\* C32: a run suspends for human input only in resolve_time_range, only with
\* a plan that has no time range, a free-text trigger and no pre-parsed start
\* time, so never for an alert; and resolve_time_range run on a plan that has
\* a time range leaves the state as it was.
C32_SuspendsOnlyForUnresolvedQuery ==
  [][/\ (status' = "interrupted") =>
          /\ Running("resolve_time_range")
          /\ st.plan.time_range = "none"
          /\ trigger.trigger_type = "user_query"
          /\ ~trigger.preparsed
     /\ (runs'["resolve_time_range"] > runs["resolve_time_range"]
           /\ st.plan.time_range # "none") => st' = st]_vars

C32_Witness ==
  /\ trigger.trigger_type = "alert"
  /\ runs["resolve_time_range"] = 2
  /\ runs["plan_investigation"] = 2
  /\ st.plan.time_range = "alert"
  /\ status = "running"

\* C33: a run that has suspended in resolve_time_range and has not been
\* resumed keeps its record running: while its task waits for the reply the
\* record is neither completed nor failed, unless the run has timed out.
C33_SuspendedStaysRunning ==
  (stage.node = "run_investigation" /\ stage.output.task = "suspended"
     /\ ~stage.output.expired) =>
    stage.output.status = "running"

\* C34: a stage that reports to the progress sink ends as it ends without a
\* sink, whatever the sink does: it starts its sub-graph, and returns the
\* sub-graph's result or raises the sub-graph's exception; and with no
\* investigation id or no sink nothing is reported.
C34_SinkNeverAffectsStage ==
  (stage.node = "wrapped" /\ stage.pc # "called") =>
    /\ stage.pc \in {"invoking",
                     IF stage.input.subgraph = "raises" THEN "raised" ELSE "returned"}
    /\ stage.pc = "raised" => stage.output.exc = "subgraph"
    /\ stage.pc = "returned" =>
         DOMAIN stage.output.result = output_keys(stage.input.stage_name)
    /\ (stage.input.state.investigation_id = "" \/ stage.input.callback = "none") =>
         stage.output.reported = <<>>

\* C35: a batch is classified query by query: the valid list and the error
\* list of the batch are those of its queries taken alone, in input order; a
\* query without a placeholder gives exactly one entry, valid or error, and
\* the error entry names the query as it was given; a query with a
\* placeholder gives none. The metrics batch ["up", "up{"] gives the one
\* valid query "up" and one error entry, for the second query.
C35_ClassifiedIndependently ==
  (stage.node = "validate_query_list" /\ stage.pc = "returned") =>
    LET queries == stage.input.queries
        query_type == stage.input.query_type
        alone == [i \in DOMAIN queries |-> _validate_query_list(<<queries[i]>>, query_type)]
        in_valid == {i \in DOMAIN queries : alone[i].valid # <<>>}
        in_errors == {i \in DOMAIN queries : alone[i].errors # <<>>}
    IN /\ \A i \in DOMAIN queries :
            IF Has(queries[i], VAR)
            THEN alone[i] = [valid |-> <<>>, errors |-> <<>>]
            ELSE /\ Len(alone[i].valid) + Len(alone[i].errors) = 1
                 /\ i \in in_errors => alone[i].errors[1].query = queries[i]
       /\ stage.output.valid
            = [k \in 1..Cardinality(in_valid) |-> Pick(alone, in_valid)[k].valid[1]]
       /\ stage.output.errors
            = [k \in 1..Cardinality(in_errors) |-> Pick(alone, in_errors)[k].errors[1]]
       /\ (queries = <<(<<"up">>), (<<"up", "{">>)>> /\ query_type = "promql") =>
            /\ stage.output.valid = <<(<<"up">>)>>
            /\ Len(stage.output.errors) = 1
            /\ stage.output.errors[1].query = <<"up", "{">>

C35_Witness ==
  /\ stage.node = "validate_query_list"
  /\ stage.pc = "returned"
  /\ stage.input.query_type = "promql"
  /\ stage.input.queries = <<(<<VAR>>), (<<"up">>), (<<"up", "{">>)>>
  /\ stage.output.valid = <<(<<"up">>)>>
  /\ Len(stage.output.errors) = 1

\* C36 as stated: a request through the wrapper, or through the wrapper that
\* bind_tools returns, calls the wrapped service at most max_attempts times.
C36_AtMostMaxAttempts ==
  stage.node = "ainvoke" => Len(stage.output.outcomes) <= stage.input.max_attempts

\* C36: a request through the wrapper, or through the wrapper that bind_tools
\* returns, calls the wrapped service at least once and at most max_attempts
\* times (once for max_attempts below 1); every call but the last raised a
\* rate limit error; the request returns the first response, raises the rate
\* limit error only after the last allowed call, and raises any other error
\* at the call that raised it.
C36_RetriesOnlyRateLimit ==
  stage.node = "ainvoke" =>
    LET outcomes == stage.output.outcomes
        limit == Max(1, stage.input.max_attempts)
    IN /\ Len(outcomes) <= limit
       /\ \A i \in DOMAIN outcomes :
            (i < Len(outcomes) \/ stage.pc = "calling") => outcomes[i] = "RateLimitError"
       /\ stage.pc = "calling" => Len(outcomes) < limit
       /\ stage.pc = "returned" => outcomes[Len(outcomes)] = "response"
       /\ stage.pc = "raised" =>
            /\ outcomes[Len(outcomes)] \in {"RateLimitError", "ValueError"}
            /\ outcomes[Len(outcomes)] = "RateLimitError" => Len(outcomes) = limit

C36_Witness ==
  /\ stage.node = "ainvoke"
  /\ stage.input.wrapper.llm = "bound"
  /\ stage.input.max_attempts = 2
  /\ stage.pc = "raised"
  /\ stage.output.outcomes = <<"RateLimitError", "RateLimitError">>

\* C37: with several tasks using session_context on one tool object, every
\* call a task makes inside its block goes to the session its block opened,
\* that session being open, the tool stays bound to that session for as
\* long as the task is inside the block, and a block that has been left,
\* normally or by an error, has closed its session.
C37_CallsUseOwnSession ==
  stage.node = "session_context" =>
    \A t \in 1..NumInv :
      /\ \A i \in DOMAIN stage.output.tasks[t].used :
           stage.output.tasks[t].used[i] = [session |-> t, open |-> TRUE]
      /\ stage.output.tasks[t].pc = "inside" =>
           (stage.output._current_session = t /\ t \in stage.output.open)
      /\ stage.output.tasks[t].pc \in {"left", "raised"} => t \notin stage.output.open

\* C38: the record of a run changes status only from running, and then to
\* completed or failed; from then on its status, error and report stay as
\* they are, whatever the task does afterwards; and the background function
\* never ends, by return, exception or cancellation, with the record still
\* running.
C38_StatusChangesOnce ==
  [][stage.node = "run_investigation" =>
       /\ stage'.output.status # stage.output.status =>
            /\ stage.output.status = "running"
            /\ stage'.output.status \in {"completed", "failed"}
       /\ stage.output.status # "running" =>
            /\ stage'.output.status = stage.output.status
            /\ stage'.output.error = stage.output.error
            /\ stage'.output.rca_report = stage.output.rca_report
       /\ stage'.pc \in {"finished", "abandoned"} => stage'.output.status # "running"]_vars

\* C39: every investigation leaves status running: no background function
\* ends before complete_investigation or fail_investigation was called. The
\* function ends either at "finished", after one of the two was called, or at
\* "crashed", where the exception left it during the health refresh, which is
\* awaited before the try block; nothing changes the record afterwards, so a
\* crashed one stays running for good.
C39_NoRunAbandoned ==
  \A i \in Inv : task[i].pc # "crashed"

\* C40: provided every scheduled node returns, every run executes GenerateRCA
\* exactly once and then ends.
C40_EveryRunReachesRCA ==
  <>(runs["generate_rca"] = 1 /\ status = "done")
====
